---- MODULE Spec2Model ----
(***************************************************************************)
(* Model of the NullifierLabs mixer program (programs/nullifier/src).      *)
(*                                                                         *)
(* Amounts are in units of 10^5 lamports (the fee of the smallest tier),   *)
(* so that every tier and its 0.1% fee are exact integers that fit TLC's   *)
(* 32-bit integers.  SHA-256 over the 64-byte concatenation of two         *)
(* 32-byte values is modelled as a collision-free pairing: the digest of   *)
(* (l, r) is the term <<l, r>>; a 32-byte literal [v; 32] is <<v>>.         *)
(*                                                                         *)
(* Every instruction is one atomic ledger transaction: its handler is an   *)
(* operator from the pre-state to a result [err, st]; the host ledger      *)
(* commits st only when err = "Ok" and discards it otherwise.              *)
(***************************************************************************)
EXTENDS Integers, Sequences, FiniteSets, TLC

\* ------------------------------------------------------------ constants
MIN_TIME_DELAY == 60
FEE_BASIS_POINTS == 10
BASIS_POINTS_DIVISOR == 10000

\* 100_000_000 lamports, in units of 10^5 lamports
DENOMINATION_01_SOL == 1000
\* 1_000_000_000 lamports
DENOMINATION_1_SOL == 10000
\* 10_000_000_000 lamports
DENOMINATION_10_SOL == 100000
\* 100_000_000_000 lamports
DENOMINATION_100_SOL == 1000000

\* Scaled: the source sets 100.
MAX_NULLIFIERS_PER_ACCOUNT == 2
\* Scaled: the source sets 20 (2^20 leaves).
MERKLE_TREE_DEPTH == 2
\* Scaled width of the unsigned 64-bit integers of the source.
WORD_BITS == 24
U64_MAX == 2^WORD_BITS - 1
\* encrypted_data.len() <= 200
MAX_ENCRYPTED_DATA == 200

\* ------------------------------------------------------------ bounds
\* Number of user wallets (signers, recipients, fee collectors).
NumUsers == 2
\* Distinct non-zero 32-byte literals used as secrets and nullifiers.
NumVals == 3
\* Distinct notes (secret, nullifier) the client deposits commitments of.
NumNotes == 2
\* Clock advances in steps of MIN_TIME_DELAY, at most MaxTicks times.
MaxTicks == 1
\* Caps on the number of successful operations of each kind in one run.
MaxDeposits == 3
MaxCreates == 2
\* Interventions of the authority in one run that change the ledger: pool
\* closes, force-closes, changes of config.authority or config.fee_collector.
MaxAdminActs == 1
\* Lamports each wallet holds initially.
InitialLamports == 13000
\* Deposits and forced closes in the runs of the leaf cursor
MaxTreeDeposits == 5
MaxTreeAdminActs == 2
\* Deposits in the runs with two pools
MaxPoolsDeposits == 4
\* Deposits in the runs on the pool's balance
MaxSolvencyDeposits == 3
\* Deposits in the runs beside the Groth16 verifier
MaxGroth16Deposits == 2
\* Deposits in the runs with notes of a zero secret or nullifier
MaxNotesDeposits == 3
\* Fee computation: the largest of the small amounts, and the width of the
\* windows around the overflow threshold and under the largest amount
MaxSmallAmount == 2100
Window == 20

Users == 1..NumUsers
\* The wallet that deposits, receives withdrawals and pays for registries;
\* wallet 1 is the authority the mixer is initialized with.
Client == NumUsers
\* Pools are PDAs keyed by denomination; the model creates pools of these
\* two tiers (any tier is accepted by create_pool).
PoolIds == {DENOMINATION_01_SOL, DENOMINATION_1_SOL}
LeafIndices == 0..(2^MERKLE_TREE_DEPTH - 1)
Levels == 0..(MERKLE_TREE_DEPTH - 1)

NoAccount == [exists |-> FALSE]

\* ------------------------------------------------------------ 32-byte values
Bytes32(v) == <<v>>
\* Mutant of ZERO32: the sentinel the handlers reject is not the zero value.
ZERO32AsOne == Bytes32(1)
\* [0u8; 32]
ZERO32 == Bytes32(0)
Vals == {Bytes32(v) : v \in 0..NumVals}
\* Note v has secret and nullifier Bytes32(v).
Notes == {Bytes32(v) : v \in 1..NumNotes}

\* Mutant of verify_groth16_proof: only a proof for a non-zero root is
\* accepted.
verify_groth16_proofOfRoot(proof, public_inputs, verification_key) ==
    [err |-> "Ok", value |-> public_inputs.root # ZERO32]

\* groth16.rs verify_groth16_proof: logs the public inputs, then Ok(true)
verify_groth16_proof(proof, public_inputs, verification_key) ==
    [err |-> "Ok", value |-> TRUE]

\* merkle.rs hash_pair: SHA256(left || right)
hash_pair(left, right) == <<left, right>>

\* Mutant of compute_commitment: the nullifier is hashed first.
compute_commitmentNullifierFirst(secret, nullifier) == <<nullifier, secret>>

\* merkle.rs compute_commitment: SHA256(secret || nullifier)
compute_commitment(secret, nullifier) == <<secret, nullifier>>

RECURSIVE MerkleFold(_, _, _, _)
\* the loop body of verify_merkle_proof / compute_merkle_root from level i
MerkleFold(current, path, path_indices, i) ==
    IF i >= MERKLE_TREE_DEPTH THEN current
    ELSE LET left == IF path_indices[i] THEN path[i] ELSE current
             right == IF path_indices[i] THEN current ELSE path[i]
         IN MerkleFold(hash_pair(left, right), path, path_indices, i + 1)

RECURSIVE LeftFold(_, _, _)
\* A fold that takes the running hash for the left child at every level
LeftFold(current, path, i) ==
    IF i >= MERKLE_TREE_DEPTH THEN current
    ELSE LeftFold(hash_pair(current, path[i]), path, i + 1)

\* Mutant of compute_merkle_root: path_indices is ignored.
compute_merkle_rootLeftOnly(leaf, path, path_indices) ==
    LeftFold(leaf, path, 0)

compute_merkle_root(leaf, path, path_indices) ==
    MerkleFold(leaf, path, path_indices, 0)

RECURSIVE VerifyFold(_, _, _, _)
\* the loop of verify_merkle_proof from level i
VerifyFold(current, path, path_indices, i) ==
    IF i >= MERKLE_TREE_DEPTH THEN current
    ELSE LET left == IF path_indices[i] THEN path[i] ELSE current
             right == IF path_indices[i] THEN current ELSE path[i]
         IN VerifyFold(hash_pair(left, right), path, path_indices, i + 1)

\* Mutant of verify_merkle_proof: every proof is taken to verify.
verify_merkle_proofAny(leaf, path, path_indices, root) == TRUE

\* Mutant of verify_merkle_proof: path_indices is ignored.
verify_merkle_proofLeftOnly(leaf, path, path_indices, root) ==
    LeftFold(leaf, path, 0) = root

verify_merkle_proof(leaf, path, path_indices, root) ==
    VerifyFold(leaf, path, path_indices, 0) = root

\* Mutant of ZeroValue: every level holds the zero leaf.
ZeroValueFlat(i) == ZERO32

RECURSIVE ZeroValue(_)
ZeroValue(i) ==
    IF i = 0 THEN ZERO32 ELSE hash_pair(ZeroValue(i - 1), ZeroValue(i - 1))

compute_zero_values == [i \in 0..MERKLE_TREE_DEPTH |-> ZeroValue(i)]

\* ------------------------------------------------------------ accounts
\* Account sizes (the LEN / MAX_SIZE constants of lib.rs)
Config_LEN == 8 + 32 + 32 + 1 + 1
MixerPool_LEN == 8 + 8 + 8 + 4 + 4 + 32 + 4 + 8 + 1
CommitmentRecord_LEN == 8 + 32 + 32 + 4 + 8 + 1
EncryptedNote_MAX_SIZE == 8 + 32 + 4 + 200 + 32 + 4 + 8 + 1
NullifierRegistry_LEN == 8 + 32 + 1 + 4 + (32 * 100)

\* Lamports an `init` account is funded with by its payer: the ledger's
\* rent-exempt minimum (128 + space) * 3480 * 2 lamports, in model units.
RentExemptMinimum(space) == ((128 + space) * 3480 * 2) \div 100000

\* A denomination that is none of the four tiers.
INVALID_DENOMINATION == DENOMINATION_01_SOL \div 2
\* Pool PDAs the model holds: the two tiers it creates pools of, the two
\* larger tiers (create_pool is asked for them, no run creates them) and the
\* address of the denomination that is no tier.
PoolKeys ==
    PoolIds \cup {DENOMINATION_10_SOL, DENOMINATION_100_SOL,
                  INVALID_DENOMINATION}
\* Commitment-record PDAs are keyed by (pool, next_leaf_index); the key
\* 2^DEPTH is derived (and rejected with TreeFull) when the tree is full.
RecordKeys == 0..(2^MERKLE_TREE_DEPTH)

Res(err, st) == [err |-> err, st |-> st]

\* u64::checked_mul / checked_div / checked_sub / checked_add; -1 is None
CheckedMul(a, b) == IF b # 0 /\ a > U64_MAX \div b THEN -1 ELSE a * b
CheckedDiv(a, b) == IF b = 0 THEN -1 ELSE a \div b
CheckedSub(a, b) == IF a < b THEN -1 ELSE a - b
\* Mutant of CheckedAdd: the credit is applied as a debit.
CheckedAddAsSub(a, b) == IF a > U64_MAX - b THEN -1 ELSE a - b
CheckedAdd(a, b) == IF a > U64_MAX - b THEN -1 ELSE a + b

\* Mutant of is_used: the lookup never finds the nullifier.
is_usedNever(reg, nullifier) == FALSE

\* NullifierRegistry::is_used
is_used(reg, nullifier) ==
    \E i \in 1..Len(reg.nullifiers) : reg.nullifiers[i] = nullifier

\* Mutant of add_nullifier: the capacity test is off by one (<= for <).
add_nullifierOffByOne(reg, nullifier) ==
    IF ~(Len(reg.nullifiers) <= MAX_NULLIFIERS_PER_ACCOUNT)
    THEN [err |-> "NullifierRegistryFull", reg |-> reg]
    ELSE [err |-> "Ok",
          reg |-> [reg EXCEPT !.nullifiers = Append(@, nullifier)]]

\* NullifierRegistry::add_nullifier: [err, reg]
add_nullifier(reg, nullifier) ==
    IF ~(Len(reg.nullifiers) < MAX_NULLIFIERS_PER_ACCOUNT)
    THEN [err |-> "NullifierRegistryFull", reg |-> reg]
    ELSE [err |-> "Ok",
          reg |-> [reg EXCEPT !.nullifiers = Append(@, nullifier)]]

\* `init, payer = payer, space = n`: the system program funds a fresh
\* account from the payer; it fails if the address is in use or the payer
\* cannot pay.
InitError(account, st, payer, space) ==
    IF account.exists THEN "AccountAlreadyInUse"
    ELSE IF st.wallets[payer] < RentExemptMinimum(space)
    THEN "InsufficientLamports"
    ELSE "Ok"

PayRent(st, payer, space) ==
    [st EXCEPT !.wallets[payer] = @ - RentExemptMinimum(space)]

\* Mutant of HasOneAuthority: any signer passes.
HasOneAuthorityAnySigner(config, signer) == TRUE

\* `has_one = authority` with `authority: Signer`
HasOneAuthority(config, signer) == config.authority = signer

\* An AccountInfo passed to an instruction without a type: a wallet or an
\* account of the program.
Target(kind, p, leaf, owner) ==
    [kind |-> kind, pool |-> p, leaf |-> leaf, owner |-> owner]
Wallet(u) == Target("wallet", 0, 0, u)
PoolAccount(p) == Target("pool", p, 0, 0)

AccountAt(st, t) ==
    CASE t.kind = "config" -> st.config
      [] t.kind = "pool" -> st.pools[t.pool]
      [] t.kind = "registry" -> st.registry[t.pool]
      [] t.kind = "record" -> st.records[t.pool][t.leaf]
      [] t.kind = "note" -> st.notes[t.pool][t.leaf][t.owner]

\* account.lamports()
LamportsOf(st, t) ==
    IF t.kind = "wallet" THEN st.wallets[t.owner] ELSE AccountAt(st, t).lamports

\* **account.try_borrow_mut_lamports()? = v
SetLamports(st, t, v) ==
    CASE t.kind = "wallet" -> [st EXCEPT !.wallets[t.owner] = v]
      [] t.kind = "config" -> [st EXCEPT !.config.lamports = v]
      [] t.kind = "pool" -> [st EXCEPT !.pools[t.pool].lamports = v]
      [] t.kind = "registry" -> [st EXCEPT !.registry[t.pool].lamports = v]
      [] t.kind = "record" ->
           [st EXCEPT !.records[t.pool][t.leaf].lamports = v]
      [] t.kind = "note" ->
           [st EXCEPT !.notes[t.pool][t.leaf][t.owner].lamports = v]

\* ------------------------------------------------------------ handlers
\* Each handler maps the pre-state st (a record of every account) and the
\* instruction's accounts and arguments to Res(err, st'), where st' holds
\* the writes made up to the point of return.

\* initialize, with Initialize's `init` of the config PDA
initialize(st, payer, authority) ==
    LET e == InitError(st.config, st, payer, Config_LEN) IN
    IF e # "Ok" THEN Res(e, st)
    ELSE Res("Ok", [PayRent(st, payer, Config_LEN) EXCEPT !.config =
            [exists |-> TRUE, authority |-> authority, paused |-> FALSE,
             fee_collector |-> authority,
             lamports |-> RentExemptMinimum(Config_LEN)]])

\* Mutant of DenominationIsTier: the 100 SOL tier is left out.
DenominationIsTierOfThree(denomination) ==
    \/ denomination = DENOMINATION_01_SOL
    \/ denomination = DENOMINATION_1_SOL
    \/ denomination = DENOMINATION_10_SOL

\* create_pool's first require!
DenominationIsTier(denomination) ==
    \/ denomination = DENOMINATION_01_SOL
    \/ denomination = DENOMINATION_1_SOL
    \/ denomination = DENOMINATION_10_SOL
    \/ denomination = DENOMINATION_100_SOL

\* create_pool, with CreatePool's `init` of the pool PDA and has_one
create_pool(st, signer, payer, denomination, min_delay, time) ==
    IF ~st.config.exists THEN Res("AccountNotInitialized", st)
    ELSE LET e == InitError(st.pools[denomination], st, payer, MixerPool_LEN)
             st1 == [PayRent(st, payer, MixerPool_LEN)
                       EXCEPT !.pools[denomination] =
                         [exists |-> TRUE, denomination |-> 0, min_delay |-> 0,
                          total_deposits |-> 0, total_withdrawals |-> 0,
                          merkle_root |-> ZERO32, next_leaf_index |-> 0,
                          creation_timestamp |-> 0,
                          lamports |-> RentExemptMinimum(MixerPool_LEN)]]
         IN
         IF e # "Ok" THEN Res(e, st)
         ELSE IF ~HasOneAuthority(st.config, signer)
         THEN Res("ConstraintHasOne", st1)
         ELSE IF ~DenominationIsTier(denomination)
         THEN Res("InvalidDenomination", st1)
         ELSE IF ~(min_delay >= MIN_TIME_DELAY)
         THEN Res("InvalidTimeDelay", st1)
         ELSE Res("Ok", [st1 EXCEPT !.pools[denomination] =
                 [@ EXCEPT !.denomination = denomination,
                           !.min_delay = min_delay,
                           !.total_deposits = 0,
                           !.total_withdrawals = 0,
                           !.merkle_root = ZERO32,
                           !.next_leaf_index = 0,
                           !.creation_timestamp = time]])

\* The account checks of Deposit: config and pool deserialize, the
\* commitment record and the encrypted note are `init` PDAs keyed by
\* pool.next_leaf_index (and the depositor), paid for by the depositor.
DepositAccounts(st, depositor, p) ==
    IF ~st.config.exists \/ ~st.pools[p].exists
    THEN Res("AccountNotInitialized", st)
    ELSE LET i == st.pools[p].next_leaf_index
             e1 == InitError(st.records[p][i], st, depositor,
                             CommitmentRecord_LEN)
             st1 == [PayRent(st, depositor, CommitmentRecord_LEN)
                       EXCEPT !.records[p][i] =
                         [exists |-> TRUE, commitment |-> ZERO32,
                          leaf_index |-> 0, timestamp |-> 0,
                          lamports |-> RentExemptMinimum(CommitmentRecord_LEN)]]
             e2 == InitError(st.notes[p][i][depositor], st1, depositor,
                             EncryptedNote_MAX_SIZE)
             st2 == [PayRent(st1, depositor, EncryptedNote_MAX_SIZE)
                       EXCEPT !.notes[p][i][depositor] =
                         [exists |-> TRUE, len |-> 0, leaf_index |-> 0,
                          timestamp |-> 0,
                          lamports |-> RentExemptMinimum(EncryptedNote_MAX_SIZE)]]
         IN IF e1 # "Ok" THEN Res(e1, st)
            ELSE IF e2 # "Ok" THEN Res(e2, st1)
            ELSE Res("Ok", st2)

\* Mutant of Paused: the pause flag is ignored.
PausedNever(st) == FALSE

\* require!(!config.paused, MixerError::MixerPaused) tests this flag
Paused(st) == st.config.paused

\* Mutant of TreeHasRoom: the tree takes one leaf more than it has.
TreeHasRoomOneMore(pool) == pool.next_leaf_index <= 2^MERKLE_TREE_DEPTH

\* pool.next_leaf_index < (1u32 << merkle::MERKLE_TREE_DEPTH)
TreeHasRoom(pool) == pool.next_leaf_index < 2^MERKLE_TREE_DEPTH

\* Mutant of DepositCounters: the leaf cursor moves, the deposit count
\* does not.
DepositCountersLeafOnly(pool) == [pool EXCEPT !.next_leaf_index = @ + 1]

\* pool.next_leaf_index += 1; pool.total_deposits += 1
DepositCounters(pool) ==
    [pool EXCEPT !.next_leaf_index = @ + 1, !.total_deposits = @ + 1]

\* deposit: the handler body, on the state the account checks left
deposit_body(st, depositor, p, commitment, data_len, time) ==
    LET pool == st.pools[p] IN
    IF Paused(st) THEN Res("MixerPaused", st)
    ELSE IF ~(commitment # ZERO32) THEN Res("InvalidCommitment", st)
    ELSE IF ~(data_len <= MAX_ENCRYPTED_DATA)
    THEN Res("EncryptedDataTooLarge", st)
    ELSE IF ~TreeHasRoom(pool)
    THEN Res("TreeFull", st)
    ELSE LET deposit_amount == pool.denomination
             leaf_index == pool.next_leaf_index
         IN
         \* system_instruction::transfer(depositor, pool, deposit_amount)
         IF st.wallets[depositor] < deposit_amount
         THEN Res("InsufficientLamports", st)
         ELSE Res("Ok",
               [st EXCEPT
                  !.wallets[depositor] = @ - deposit_amount,
                  !.records[p][leaf_index] =
                      [@ EXCEPT !.commitment = commitment,
                                !.leaf_index = leaf_index,
                                !.timestamp = time],
                  !.notes[p][leaf_index][depositor] =
                      [@ EXCEPT !.len = data_len,
                                !.leaf_index = leaf_index,
                                !.timestamp = time],
                  !.pools[p] =
                      DepositCounters([@ EXCEPT
                                         !.lamports = @ + deposit_amount])])

deposit(st, depositor, p, commitment, data_len, time) ==
    LET a == DepositAccounts(st, depositor, p) IN
    IF a.err # "Ok" THEN a
    ELSE deposit_body(a.st, depositor, p, commitment, data_len, time)

\* pool.total_withdrawals += 1
WithdrawCounters(pool) == [pool EXCEPT !.total_withdrawals = @ + 1]

\* The account checks of Withdraw: config, pool and the pool's nullifier
\* registry PDA deserialize; fee_collector has `address = config.fee_collector`.
\* Mutant of nullifier_registry: one registry for every pool.
nullifier_registrySharedByPools(p) == DENOMINATION_01_SOL

\* The registry address is derived from the pool's key: the model keys the
\* registries by pool, and the registry of pool p is the one at key p.
nullifier_registry(p) == p

WithdrawAccounts(st, p, fee_collector) ==
    IF ~st.config.exists \/ ~st.pools[p].exists
       \/ ~st.registry[nullifier_registry(p)].exists
    THEN "AccountNotInitialized"
    ELSE IF fee_collector # st.config.fee_collector
    THEN "ConstraintAddress"
    ELSE "Ok"

\* Mutant of AnonymitySetSufficient: one deposit is enough.
AnonymitySetOfOne(pool) == pool.total_deposits >= 1

\* pool.total_deposits >= 2
AnonymitySetSufficient(pool) == pool.total_deposits >= 2

\* Mutant of TimeDelayMet: the pool has to be older than min_delay.
TimeDelayMetStrictly(pool, time) ==
    LET pool_age == time - pool.creation_timestamp IN
    pool_age > pool.min_delay

\* Mutant of TimeDelayMet: the clock is compared with min_delay without
\* the pool's creation time.
TimeDelayFromEpoch(pool, time) == time >= pool.min_delay

\* pool_age = current_time - pool.creation_timestamp (checked_sub on i64);
\* pool_age >= pool.min_delay
TimeDelayMet(pool, time) ==
    LET pool_age == time - pool.creation_timestamp IN
    pool_age >= pool.min_delay

\* Mutant of FeeSplit: the product wraps around instead of failing.
FeeSplitWrapping(withdrawal_amount) ==
    LET mul == (withdrawal_amount * FEE_BASIS_POINTS) % (U64_MAX + 1)
        fee_amount == mul \div BASIS_POINTS_DIVISOR
    IN [err |-> "Ok", fee |-> fee_amount,
        net |-> withdrawal_amount - fee_amount]

\* fee_amount = withdrawal_amount.checked_mul(FEE_BASIS_POINTS)?
\*                  .checked_div(BASIS_POINTS_DIVISOR)?;
\* net_withdrawal = withdrawal_amount.checked_sub(fee_amount)?
FeeSplit(withdrawal_amount) ==
    LET mul == CheckedMul(withdrawal_amount, FEE_BASIS_POINTS)
        fee_amount == IF mul < 0 THEN -1
                      ELSE CheckedDiv(mul, BASIS_POINTS_DIVISOR)
        net_withdrawal == IF fee_amount < 0 THEN -1
                          ELSE CheckedSub(withdrawal_amount, fee_amount)
    IN IF mul < 0 \/ fee_amount < 0 \/ net_withdrawal < 0
       THEN [err |-> "ArithmeticOverflow", fee |-> 0, net |-> 0]
       ELSE [err |-> "Ok", fee |-> fee_amount, net |-> net_withdrawal]

\* Mutant of withdraw_requires: the Merkle proof is verified before the
\* registry is consulted.
withdraw_requiresProofFirst(st, a, time) ==
    LET p == a.pool
        pool == st.pools[p]
        nullifier_record == st.registry[nullifier_registry(p)]
        commitment == compute_commitment(a.secret, a.nullifier)
        proof_valid == verify_merkle_proof(commitment, a.merkle_proof,
                                           a.path_indices, a.merkle_root)
    IN
    IF Paused(st) THEN "MixerPaused"
    ELSE IF ~(a.nullifier # ZERO32) THEN "InvalidNullifier"
    ELSE IF ~(a.secret # ZERO32) THEN "InvalidSecret"
    ELSE IF ~proof_valid THEN "InvalidMerkleProof"
    ELSE IF is_used(nullifier_record, a.nullifier)
    THEN "NullifierAlreadyUsed"
    ELSE IF ~AnonymitySetSufficient(pool) THEN "InsufficientAnonymitySet"
    ELSE IF ~TimeDelayMet(pool, time) THEN "TimeDelayNotMet"
    ELSE "Ok"

\* withdraw: the require! checks that precede the fee computation, in the
\* order of the handler; the error of the first that fails.
withdraw_requires(st, a, time) ==
    LET p == a.pool
        pool == st.pools[p]
        nullifier_record == st.registry[nullifier_registry(p)]
    IN
    IF Paused(st) THEN "MixerPaused"
    ELSE IF ~(a.nullifier # ZERO32) THEN "InvalidNullifier"
    ELSE IF ~(a.secret # ZERO32) THEN "InvalidSecret"
    ELSE IF is_used(nullifier_record, a.nullifier)
    THEN "NullifierAlreadyUsed"
    ELSE LET commitment == compute_commitment(a.secret, a.nullifier)
             proof_valid == verify_merkle_proof(commitment, a.merkle_proof,
                                                a.path_indices, a.merkle_root)
         IN
    IF ~proof_valid THEN "InvalidMerkleProof"
    ELSE IF ~AnonymitySetSufficient(pool) THEN "InsufficientAnonymitySet"
    ELSE IF ~TimeDelayMet(pool, time) THEN "TimeDelayNotMet"
    ELSE "Ok"

\* withdraw: the handler body.  a is the record of its arguments and of
\* the recipient and fee_collector accounts.
withdraw_body(st, a, time) ==
    LET p == a.pool
        pool == st.pools[p]
        nullifier_record == st.registry[nullifier_registry(p)]
        required == withdraw_requires(st, a, time)
    IN
    IF required # "Ok" THEN Res(required, st)
    ELSE LET withdrawal_amount == pool.denomination
             split == FeeSplit(withdrawal_amount)
             fee_amount == split.fee
             net_withdrawal == split.net
         IN
    IF split.err # "Ok" THEN Res(split.err, st)
    ELSE IF ~(pool.lamports >= withdrawal_amount)
    THEN Res("InsufficientFunds", st)
    ELSE LET pool1 == CheckedSub(pool.lamports, net_withdrawal)
             st1 == [st EXCEPT !.pools[p].lamports = pool1]
             rcpt == CheckedAdd(LamportsOf(st1, a.recipient), net_withdrawal)
             st2 == SetLamports(st1, a.recipient, rcpt)
             pool2 == CheckedSub(st2.pools[p].lamports, fee_amount)
             st3 == [st2 EXCEPT !.pools[p].lamports = pool2]
             coll == CheckedAdd(st3.wallets[a.fee_collector], fee_amount)
             st4 == [st3 EXCEPT !.wallets[a.fee_collector] = coll]
             added == add_nullifier(nullifier_record, a.nullifier)
         IN
    IF pool1 < 0 THEN Res("InsufficientFunds", st)
    ELSE IF rcpt < 0 THEN Res("ArithmeticOverflow", st1)
    ELSE IF pool2 < 0 THEN Res("InsufficientFunds", st2)
    ELSE IF coll < 0 THEN Res("ArithmeticOverflow", st3)
    ELSE IF added.err # "Ok" THEN Res(added.err, st4)
    ELSE Res("Ok", [st4 EXCEPT !.registry[nullifier_registry(p)] = added.reg,
                               !.pools[p] = WithdrawCounters(@)])

withdraw(st, a, time) ==
    LET e == WithdrawAccounts(st, a.pool, a.fee_collector) IN
    IF e # "Ok" THEN Res(e, st) ELSE withdraw_body(st, a, time)

\* initialize_nullifier_registry, with the `init` of the registry PDA
\* keyed by the pool's address
initialize_nullifier_registry(st, payer, p) ==
    IF ~st.pools[p].exists THEN Res("AccountNotInitialized", st)
    ELSE LET e == InitError(st.registry[nullifier_registry(p)], st, payer,
                           NullifierRegistry_LEN)
         IN IF e # "Ok" THEN Res(e, st)
            ELSE Res("Ok", [PayRent(st, payer, NullifierRegistry_LEN)
                     EXCEPT !.registry[nullifier_registry(p)] =
                       [exists |-> TRUE, pool |-> p, nullifiers |-> <<>>,
                        lamports |-> RentExemptMinimum(NullifierRegistry_LEN)]])

\* AdminControl: config deserializes and has_one = authority, a Signer
AdminControl(st, signer) ==
    IF ~st.config.exists THEN "AccountNotInitialized"
    ELSE IF ~HasOneAuthority(st.config, signer) THEN "ConstraintHasOne"
    ELSE "Ok"

pause(st, signer) ==
    LET e == AdminControl(st, signer) IN
    IF e # "Ok" THEN Res(e, st)
    ELSE Res("Ok", [st EXCEPT !.config.paused = TRUE])

unpause(st, signer) ==
    LET e == AdminControl(st, signer) IN
    IF e # "Ok" THEN Res(e, st)
    ELSE Res("Ok", [st EXCEPT !.config.paused = FALSE])

\* Mutant of update_authority: the new key is made fee collector as well.
update_authorityAndCollector(st, signer, new_authority) ==
    LET e == AdminControl(st, signer) IN
    IF e # "Ok" THEN Res(e, st)
    ELSE Res("Ok", [st EXCEPT !.config.authority = new_authority,
                              !.config.fee_collector = new_authority])

update_authority(st, signer, new_authority) ==
    LET e == AdminControl(st, signer) IN
    IF e # "Ok" THEN Res(e, st)
    ELSE Res("Ok", [st EXCEPT !.config.authority = new_authority])

update_fee_collector(st, signer, new_fee_collector) ==
    LET e == AdminControl(st, signer) IN
    IF e # "Ok" THEN Res(e, st)
    ELSE Res("Ok", [st EXCEPT !.config.fee_collector = new_fee_collector])

\* close_pool, with ClosePool's has_one and `close = authority`
close_pool(st, signer, p) ==
    IF ~st.config.exists \/ ~st.pools[p].exists
    THEN Res("AccountNotInitialized", st)
    ELSE IF ~HasOneAuthority(st.config, signer)
    THEN Res("ConstraintHasOne", st)
    ELSE LET pool == st.pools[p] IN
    IF ~(pool.total_deposits = pool.total_withdrawals)
    THEN Res("PoolHasOutstandingDeposits", st)
    ELSE LET pool_lamports == pool.lamports
             st1 == [st EXCEPT !.pools[p].lamports = 0]
             st2 == [st1 EXCEPT !.wallets[signer] = @ + pool_lamports]
         IN \* `close = authority` on exit: the account is handed back
            Res("Ok", [st2 EXCEPT !.pools[p] = NoAccount])

\* The accounts force_close_account can be pointed at
Targets(P) ==
    {Target("config", 0, 0, 0)}
    \cup {Target("pool", p, 0, 0) : p \in P}
    \cup {Target("registry", p, 0, 0) : p \in P}
    \cup {Target("record", p, 0, 0) : p \in P}
    \cup {Wallet(u) : u \in Users}

\* **account.try_borrow_mut_lamports()? = 0
ZeroLamports(st, t) == SetLamports(st, t, 0)

\* force_close_account, with ForceCloseAccount's has_one.  The target is
\* an unchecked AccountInfo: no check of its type or of the pool counters.
force_close_account(st, signer, t) ==
    IF ~st.config.exists THEN Res("AccountNotInitialized", st)
    ELSE IF ~HasOneAuthority(st.config, signer)
    THEN Res("ConstraintHasOne", st)
    ELSE IF t.kind = "wallet"
    THEN \* a wallet is not owned by the program: the ledger refuses the
         \* debit, unless the target is the authority itself (net zero)
         IF t.owner = signer \/ st.wallets[t.owner] = 0 THEN Res("Ok", st)
         ELSE Res("ExternalAccountLamportSpend",
                  [st EXCEPT !.wallets[t.owner] = 0,
                             !.wallets[signer] = @ + st.wallets[t.owner]])
    ELSE IF ~AccountAt(st, t).exists THEN Res("Ok", st)
    ELSE LET account_lamports == AccountAt(st, t).lamports
             st1 == ZeroLamports(st, t)
         IN Res("Ok", [st1 EXCEPT !.wallets[signer] = @ + account_lamports])

\* The ledger drops every account left with zero lamports when a
\* transaction commits.
Swept(account) ==
    IF account.exists /\ account.lamports = 0 THEN NoAccount ELSE account

Purge(st) ==
    [st EXCEPT
       !.config = Swept(@),
       !.pools = [p \in DOMAIN @ |-> Swept(@[p])],
       !.registry = [p \in DOMAIN @ |-> Swept(@[p])],
       !.records = [p \in DOMAIN @ |-> [i \in DOMAIN @[p] |-> Swept(@[p][i])]],
       !.notes = [p \in DOMAIN @ |-> [i \in DOMAIN @[p] |->
                    [u \in DOMAIN @[p][i] |-> Swept(@[p][i][u])]]]]

\* One transaction of two instructions: force_close_account on an account
\* of the program, then a system transfer of `lamports` from the signer to
\* the same address.  force_close_account only zeroes the balance: data and
\* owner stay, and the ledger drops an account only if its balance is zero
\* when the transaction commits.
force_close_then_transfer(st, signer, t, lamports) ==
    LET closed == force_close_account(st, signer, t) IN
    IF closed.err # "Ok" THEN closed
    ELSE IF closed.st.wallets[signer] < lamports
    THEN Res("InsufficientLamports", closed.st)
    ELSE Res("Ok", SetLamports(
                     [closed.st EXCEPT !.wallets[signer] = @ - lamports],
                     t, LamportsOf(closed.st, t) + lamports))

\* ------------------------------------------------------------ off-chain
\* The proof builder of the client: it replays the pool's commitment
\* records into a tree of depth MERKLE_TREE_DEPTH whose empty leaves are zero.
Leaf(recs, i) == IF recs[i].exists THEN recs[i].commitment ELSE ZERO32

RECURSIVE Node(_, _, _)
Node(recs, level, idx) ==
    IF level = 0 THEN Leaf(recs, idx)
    ELSE hash_pair(Node(recs, level - 1, 2 * idx),
                   Node(recs, level - 1, 2 * idx + 1))

Sibling(k) == IF k % 2 = 0 THEN k + 1 ELSE k - 1

HonestProof(recs, i) ==
    [merkle_root |-> Node(recs, MERKLE_TREE_DEPTH, 0),
     merkle_proof |-> [l \in Levels |-> Node(recs, l, Sibling(i \div 2^l))],
     path_indices |-> [l \in Levels |-> (i \div 2^l) % 2 = 1]]

\* A proof nobody derived from the pool: an all-zero path on the left
\* branch, and the root it folds to from the given leaf.
ForgedProof(leaf) ==
    LET path == [l \in Levels |-> ZERO32]
        idx == [l \in Levels |-> FALSE]
    IN [merkle_root |-> compute_merkle_root(leaf, path, idx),
        merkle_proof |-> path, path_indices |-> idx]

\* The same path with a root it does not fold to.
BadProof ==
    [merkle_root |-> ZERO32,
     merkle_proof |-> [l \in Levels |-> ZERO32],
     path_indices |-> [l \in Levels |-> FALSE]]

\* ------------------------------------------------------------ state
VARIABLES
    config,     \* the Config PDA
    pools,      \* the MixerPool PDAs, by denomination
    registry,   \* the NullifierRegistry PDAs, by pool
    records,    \* the CommitmentRecord PDAs, by pool and leaf index
    notes,      \* the EncryptedNote PDAs, by pool, leaf index and owner
    wallets,    \* lamports of the user wallets
    now,        \* Clock::get()?.unix_timestamp
    accepted,   \* history: per pool, the nullifiers of successful withdraws
    count,      \* history: successful deposits, creations, admin acts; ticks;
                \* the pools close_pool has closed
    inflight,   \* withdraw transactions submitted to the ledger, with outcome
    calc,       \* a fee computation: the amount, and its result once computed
    merkle,     \* a proof verification: its inputs, and its result once done
    groth16     \* a Groth16 verification: its inputs, and its result once done

vars == <<config, pools, registry, records, notes, wallets, now, accepted,
          count, inflight, calc, merkle, groth16>>

\* Every account of the ledger, as the handlers see it
State ==
    [config |-> config, pools |-> pools, registry |-> registry,
     records |-> records, notes |-> notes, wallets |-> wallets]

\* Mutant of Committed: the writes of a failed handler are kept.
CommittedAlways(res) == Purge(res.st)

\* The ledger applies a transaction atomically: the handler's writes are
\* kept only when it returns Ok.
Committed(res) == IF res.err = "Ok" THEN Purge(res.st) ELSE State

Commit(res) ==
    LET st == Committed(res) IN
    /\ config' = st.config
    /\ pools' = st.pools
    /\ registry' = st.registry
    /\ records' = st.records
    /\ notes' = st.notes
    /\ wallets' = st.wallets

\* No fee computation under way
NoCalc == [amount |-> 0, done |-> FALSE, err |-> "Ok", fee |-> 0, net |-> 0]

\* No proof verification under way
NoMerkle ==
    [leaf |-> ZERO32, path |-> [l \in Levels |-> ZERO32],
     path_indices |-> [l \in Levels |-> FALSE], root |-> ZERO32,
     done |-> FALSE, valid |-> FALSE, computed |-> ZERO32]

\* No Groth16 verification under way: a zero proof, zero public inputs and
\* the default verification key
NoGroth16 ==
    [proof |-> 0, root |-> ZERO32, nullifier_hash |-> ZERO32,
     verification_key |-> 0, done |-> FALSE, err |-> "Ok", value |-> FALSE]

Init ==
    /\ config = [exists |-> TRUE, authority |-> 1, paused |-> FALSE,
                 fee_collector |-> 1,
                 lamports |-> RentExemptMinimum(Config_LEN)]
    /\ pools = [p \in PoolKeys |-> NoAccount]
    /\ registry = [p \in PoolKeys |-> NoAccount]
    /\ records = [p \in PoolKeys |-> [i \in RecordKeys |-> NoAccount]]
    /\ notes = [p \in PoolKeys |-> [i \in RecordKeys |->
                  [u \in Users |-> NoAccount]]]
    /\ wallets = [u \in Users |-> InitialLamports]
    /\ now = 0
    /\ accepted = [p \in PoolKeys |-> <<>>]
    /\ count = [deposits |-> 0, creates |-> 0, admin |-> 0, ticks |-> 0,
                closed |-> {}]
    /\ inflight = <<>>
    /\ calc = NoCalc
    /\ merkle = NoMerkle
    /\ groth16 = NoGroth16

\* ------------------------------------------------------------ actions
Initialize(payer, authority) ==
    LET res == initialize(State, payer, authority) IN
    /\ Commit(res)
    /\ UNCHANGED <<now, accepted, count, inflight, calc, merkle, groth16>>

CreatePool(signer, payer, denomination, min_delay) ==
    LET res == create_pool(State, signer, payer, denomination, min_delay, now)
    IN
    /\ res.err = "Ok" => count.creates < MaxCreates
    /\ Commit(res)
    /\ count' = IF res.err = "Ok" THEN [count EXCEPT !.creates = @ + 1]
                ELSE count
    /\ UNCHANGED <<now, accepted, inflight, calc, merkle, groth16>>

DepositUpTo(cap, depositor, p, commitment, data_len) ==
    LET res == deposit(State, depositor, p, commitment, data_len, now) IN
    /\ res.err = "Ok" => count.deposits < cap
    /\ Commit(res)
    /\ count' = IF res.err = "Ok" THEN [count EXCEPT !.deposits = @ + 1]
                ELSE count
    /\ UNCHANGED <<now, accepted, inflight, calc, merkle, groth16>>

Deposit(depositor, p, commitment, data_len) ==
    DepositUpTo(MaxDeposits, depositor, p, commitment, data_len)

\* The proofs a caller may attach to a withdraw of `leaf` from pool p
Proofs(p, leaf) ==
    {HonestProof(records[p], i) : i \in {j \in LeafIndices : records[p][j].exists}}
    \cup {ForgedProof(leaf), BadProof}

\* The fee collector account a well-formed withdraw passes: the address
\* stored in config.
StoredFeeCollector == IF config.exists THEN config.fee_collector ELSE Client

\* The arguments and the recipient and fee_collector accounts of a withdraw
WithdrawArgs(p, nullifier, secret, pr, recipient, fee_collector) ==
    [pool |-> p, nullifier |-> nullifier, secret |-> secret,
     merkle_root |-> pr.merkle_root, merkle_proof |-> pr.merkle_proof,
     path_indices |-> pr.path_indices,
     recipient |-> recipient, fee_collector |-> fee_collector]

\* A withdraw that names the pool account itself as the recipient
\* (recipient is an unchecked account, "can be any address").
SelfPayment(p) ==
    WithdrawArgs(p, Bytes32(1), Bytes32(1),
                 ForgedProof(compute_commitment(Bytes32(1), Bytes32(1))),
                 PoolAccount(p), StoredFeeCollector)

Withdraw(a) ==
    LET res == withdraw(State, a, now) IN
    /\ Commit(res)
    /\ accepted' = IF res.err = "Ok"
                   THEN [accepted EXCEPT ![a.pool] = Append(@, a.nullifier)]
                   ELSE accepted
    /\ UNCHANGED <<now, count, inflight, calc, merkle, groth16>>

InitializeNullifierRegistry(payer, p) ==
    LET res == initialize_nullifier_registry(State, payer, p) IN
    /\ Commit(res)
    /\ UNCHANGED <<now, accepted, count, inflight, calc, merkle, groth16>>

Pause(signer) ==
    LET res == pause(State, signer) IN
    /\ Commit(res)
    /\ UNCHANGED <<now, accepted, count, inflight, calc, merkle, groth16>>

Unpause(signer) ==
    LET res == unpause(State, signer) IN
    /\ Commit(res)
    /\ UNCHANGED <<now, accepted, count, inflight, calc, merkle, groth16>>

\* A rotation counts when it changed the stored key.
Rotated(res) ==
    /\ res.err = "Ok"
    /\ \/ res.st.config.authority # config.authority
       \/ res.st.config.fee_collector # config.fee_collector

UpdateAuthority(signer, new_authority) ==
    LET res == update_authority(State, signer, new_authority) IN
    /\ Rotated(res) => count.admin < MaxAdminActs
    /\ Commit(res)
    /\ count' = IF Rotated(res) THEN [count EXCEPT !.admin = @ + 1]
                ELSE count
    /\ UNCHANGED <<now, accepted, inflight, calc, merkle, groth16>>

UpdateFeeCollector(signer, new_fee_collector) ==
    LET res == update_fee_collector(State, signer, new_fee_collector) IN
    /\ Rotated(res) => count.admin < MaxAdminActs
    /\ Commit(res)
    /\ count' = IF Rotated(res) THEN [count EXCEPT !.admin = @ + 1]
                ELSE count
    /\ UNCHANGED <<now, accepted, inflight, calc, merkle, groth16>>

ClosePool(signer, p) ==
    LET res == close_pool(State, signer, p) IN
    /\ res.err = "Ok" => count.admin < MaxAdminActs
    /\ Commit(res)
    /\ count' = IF res.err = "Ok"
                THEN [count EXCEPT !.admin = @ + 1, !.closed = @ \cup {p}]
                ELSE count
    /\ UNCHANGED <<now, accepted, inflight, calc, merkle, groth16>>

\* A force-close counts when it emptied an account.
ForceClosed(res) == res.err = "Ok" /\ res.st # State

ForceCloseAccountUpTo(cap, signer, t) ==
    LET res == force_close_account(State, signer, t) IN
    /\ ForceClosed(res) => count.admin < cap
    /\ Commit(res)
    /\ count' = IF ForceClosed(res) THEN [count EXCEPT !.admin = @ + 1]
                ELSE count
    /\ UNCHANGED <<now, accepted, inflight, calc, merkle, groth16>>

ForceCloseAccount(signer, t) ==
    ForceCloseAccountUpTo(MaxAdminActs, signer, t)

ForceCloseThenTransfer(cap, signer, t, lamports) ==
    LET res == force_close_then_transfer(State, signer, t, lamports) IN
    /\ ForceClosed(res) => count.admin < cap
    /\ Commit(res)
    /\ count' = IF ForceClosed(res) THEN [count EXCEPT !.admin = @ + 1]
                ELSE count
    /\ UNCHANGED <<now, accepted, inflight, calc, merkle, groth16>>

\* The ledger's clock advances.
Tick ==
    /\ count.ticks < MaxTicks
    /\ now' = now + MIN_TIME_DELAY
    /\ count' = [count EXCEPT !.ticks = @ + 1]
    /\ UNCHANGED <<config, pools, registry, records, notes, wallets, accepted,
                   inflight, calc, merkle, groth16>>

\* The instructions submitted against the pools of P
NextOver(P) ==
    \/ \E authority \in Users : Initialize(Client, authority)
    \/ \E signer \in Users, d \in P \cup {INVALID_DENOMINATION},
          m \in {MIN_TIME_DELAY - 1, MIN_TIME_DELAY} :
            CreatePool(signer, Client, d, m)
    \/ \E p \in P,
          c \in {ZERO32} \cup {compute_commitment(v, v) : v \in Notes},
          n \in {MAX_ENCRYPTED_DATA, MAX_ENCRYPTED_DATA + 1} :
            Deposit(Client, p, c, n)
    \/ \E p \in P, n \in Vals :
          \E s \in {ZERO32, Bytes32(1), n} :
          \E pr \in Proofs(p, compute_commitment(s, n)) :
            Withdraw(WithdrawArgs(p, n, s, pr, Wallet(Client), StoredFeeCollector))
    \/ \E p \in P, f \in Users :
          Withdraw(WithdrawArgs(p, Bytes32(1), Bytes32(1),
                   ForgedProof(compute_commitment(Bytes32(1), Bytes32(1))),
                   Wallet(Client), f))
    \/ \E p \in P : Withdraw(SelfPayment(p))
    \/ \E p \in P : InitializeNullifierRegistry(Client, p)
    \/ \E signer \in Users : Pause(signer)
    \/ \E signer \in Users : Unpause(signer)
    \/ \E signer \in Users, u \in Users : UpdateAuthority(signer, u)
    \/ \E signer \in Users, u \in Users : UpdateFeeCollector(signer, u)
    \/ \E signer \in Users, p \in P : ClosePool(signer, p)
    \/ \E signer \in Users, t \in Targets(P) : ForceCloseAccount(signer, t)
    \/ Tick

Next == NextOver({DENOMINATION_01_SOL})

Spec == Init /\ [][Next]_vars

\* ------------------------------------------------------------ concurrency
\* Two withdraw transactions carrying the same nullifier for the same pool
\* are submitted together; the ledger executes each atomically, in either
\* order (both write-lock the pool and its nullifier registry).
Idle == inflight = <<>>

SubmitPair(a1, a2) ==
    /\ Idle
    /\ a1.pool = a2.pool
    /\ a1.nullifier = a2.nullifier
    /\ pools[a1.pool].exists
    /\ inflight' = [i \in 1..2 |->
                      [args |-> IF i = 1 THEN a1 ELSE a2, status |-> "pending",
                       seq |-> 0, base |-> pools[a1.pool].total_withdrawals]]
    /\ UNCHANGED <<config, pools, registry, records, notes, wallets, now,
                   accepted, count, calc, merkle, groth16>>

Execute(i) ==
    /\ i \in DOMAIN inflight
    /\ inflight[i].status = "pending"
    /\ LET a == inflight[i].args
           res == withdraw(State, a, now)
           done == Cardinality({j \in DOMAIN inflight :
                                  inflight[j].status # "pending"})
       IN /\ Commit(res)
          /\ accepted' = IF res.err = "Ok"
                         THEN [accepted EXCEPT ![a.pool] = Append(@, a.nullifier)]
                         ELSE accepted
          /\ inflight' = [inflight EXCEPT ![i].status = res.err,
                                          ![i].seq = done + 1]
    /\ UNCHANGED <<now, count, calc, merkle, groth16>>

\* The withdraws of note (n, n) the client may submit against pool p
NoteRequests(p, n) ==
    {WithdrawArgs(p, n, n, pr, Wallet(Client), StoredFeeCollector) :
       pr \in Proofs(p, compute_commitment(n, n)) \ {BadProof}}

NextConc ==
    \/ Idle /\ CreatePool(config.authority, Client, DENOMINATION_01_SOL,
                          MIN_TIME_DELAY)
    \/ Idle /\ InitializeNullifierRegistry(Client, DENOMINATION_01_SOL)
    \/ Idle /\ \E v \in Notes :
                 Deposit(Client, DENOMINATION_01_SOL, compute_commitment(v, v),
                         MAX_ENCRYPTED_DATA)
    \/ Idle /\ \E n \in Vals \ {ZERO32} :
                 \E a \in NoteRequests(DENOMINATION_01_SOL, n) : Withdraw(a)
    \/ Idle /\ Tick
    \/ \E n \in Vals \ {ZERO32} :
         \E a1, a2 \in NoteRequests(DENOMINATION_01_SOL, n) : SubmitPair(a1, a2)
    \/ \E i \in 1..2 : Execute(i)

SpecConc == Init /\ [][NextConc]_vars

\* -------------------------------------------------- the leaf cursor
\* Deposits by any user up to a full tree and beyond, with the pool and the
\* accounts of its deposits closed by force and the pool created again.
NextTree ==
    \/ CreatePool(config.authority, Client, DENOMINATION_01_SOL,
                  MIN_TIME_DELAY)
    \/ \E depositor \in Users :
          DepositUpTo(MaxTreeDeposits, depositor, DENOMINATION_01_SOL,
                      compute_commitment(Bytes32(1), Bytes32(1)),
                      MAX_ENCRYPTED_DATA)
    \/ \E t \in Targets({DENOMINATION_01_SOL}) :
          ForceCloseAccountUpTo(MaxTreeAdminActs, config.authority, t)

SpecTree == Init /\ [][NextTree]_vars

\* -------------------------------------------------- two pools
\* Both pools are created and given a registry, any user deposits the
\* commitment of note 1 into either, and the client withdraws note 1 or
\* note 2 from either with a proof of the pool or a forged one.
NextPools ==
    \/ \E d \in PoolIds :
          CreatePool(config.authority, Client, d, MIN_TIME_DELAY)
    \/ \E p \in PoolIds : InitializeNullifierRegistry(Client, p)
    \/ \E p \in PoolIds, depositor \in Users :
          DepositUpTo(MaxPoolsDeposits, depositor, p,
                      compute_commitment(Bytes32(1), Bytes32(1)),
                      MAX_ENCRYPTED_DATA)
    \/ \E p \in PoolIds, n \in Notes :
          \E a \in NoteRequests(p, n) : Withdraw(a)
    \/ Tick

SpecPools == Init /\ [][NextPools]_vars

\* -------------------------------------------------- notes
\* The (secret, nullifier) pairs clients build notes of: deposit sees only
\* the commitment, so a pair with a zero half is deposited like any other.
NotePairs ==
    {<<ZERO32, Bytes32(1)>>, <<Bytes32(1), ZERO32>>,
     <<Bytes32(1), Bytes32(1)>>, <<Bytes32(2), Bytes32(2)>>,
     <<Bytes32(1), Bytes32(2)>>}

\* The withdraw of the note (secret, nullifier) with the path of leaf i in
\* the tree of the pool's commitment records
NoteWithdraw(p, i, secret, nullifier) ==
    WithdrawArgs(p, nullifier, secret, HonestProof(records[p], i),
                 Wallet(Client), StoredFeeCollector)

\* One pool with its registry; the client deposits notes and withdraws
\* them with the path of a recorded leaf.
NextNotes ==
    \/ CreatePool(config.authority, Client, DENOMINATION_01_SOL,
                  MIN_TIME_DELAY)
    \/ InitializeNullifierRegistry(Client, DENOMINATION_01_SOL)
    \/ \E sn \in NotePairs :
          DepositUpTo(MaxNotesDeposits, Client, DENOMINATION_01_SOL,
                      compute_commitment(sn[1], sn[2]), MAX_ENCRYPTED_DATA)
    \/ \E sn \in NotePairs, i \in LeafIndices :
          Withdraw(NoteWithdraw(DENOMINATION_01_SOL, i, sn[1], sn[2]))
    \/ Tick

SpecNotes == Init /\ [][NextNotes]_vars

\* -------------------------------------------------- deposits and pause
\* One pool is filled up to the last leaf while the authority pauses and
\* unpauses the mixer.
NextDeposits ==
    \/ CreatePool(config.authority, Client, DENOMINATION_01_SOL,
                  MIN_TIME_DELAY)
    \/ \E c \in {ZERO32} \cup {compute_commitment(v, v) : v \in Notes},
          n \in {MAX_ENCRYPTED_DATA, MAX_ENCRYPTED_DATA + 1} :
            DepositUpTo(MaxTreeDeposits, Client, DENOMINATION_01_SOL, c, n)
    \/ Pause(config.authority)
    \/ Unpause(config.authority)
    \/ Tick

SpecDeposits == Init /\ [][NextDeposits]_vars

\* -------------------------------------------------- the Groth16 verifier
\* Proofs and verification keys stand for their byte arrays: 0 is the
\* all-zero proof and VerificationKey::default().
Groth16Proofs == 0..1
VerificationKeys == 0..1

InitGroth16 ==
    /\ Init!1 /\ Init!2 /\ Init!3 /\ Init!4 /\ Init!5 /\ Init!6 /\ Init!7
    /\ Init!8 /\ Init!9 /\ Init!10 /\ Init!11 /\ Init!12
    /\ \E proof \in Groth16Proofs, key \in VerificationKeys :
         \E root \in {ZERO32, ForgedProof(compute_commitment(Bytes32(1),
                                   Bytes32(1))).merkle_root},
            nullifier_hash \in {Bytes32(1), Bytes32(2)} :
           groth16 = [NoGroth16 EXCEPT !.proof = proof, !.root = root,
                                       !.nullifier_hash = nullifier_hash,
                                       !.verification_key = key]

\* verify_groth16_proof is applied to the inputs.
VerifyGroth16 ==
    LET result == verify_groth16_proof(groth16.proof,
                      [root |-> groth16.root,
                       nullifier_hash |-> groth16.nullifier_hash],
                      groth16.verification_key)
    IN
    /\ ~groth16.done
    /\ groth16' = [groth16 EXCEPT !.done = TRUE, !.err = result.err,
                                  !.value = result.value]
    /\ UNCHANGED <<config, pools, registry, records, notes, wallets, now,
                   accepted, count, inflight, calc, merkle>>

\* The verifier beside a pool that takes deposits and withdraws
NextGroth16 ==
    \/ VerifyGroth16
    \/ CreatePool(config.authority, Client, DENOMINATION_01_SOL,
                  MIN_TIME_DELAY)
    \/ InitializeNullifierRegistry(Client, DENOMINATION_01_SOL)
    \/ DepositUpTo(MaxGroth16Deposits, Client, DENOMINATION_01_SOL,
                   compute_commitment(Bytes32(1), Bytes32(1)),
                   MAX_ENCRYPTED_DATA)
    \/ \E n \in Notes :
          \E a \in NoteRequests(DENOMINATION_01_SOL, n) : Withdraw(a)
    \/ Tick

SpecGroth16 == InitGroth16 /\ [][NextGroth16]_vars

\* -------------------------------------------------- pool balance
\* One pool takes deposits and withdraws while the authority force-closes
\* its accounts, alone or followed in the same transaction by a transfer
\* of the pool's rent back to the pool's address.
NextSolvency ==
    \/ CreatePool(config.authority, Client, DENOMINATION_01_SOL,
                  MIN_TIME_DELAY)
    \/ InitializeNullifierRegistry(Client, DENOMINATION_01_SOL)
    \/ DepositUpTo(MaxSolvencyDeposits, Client, DENOMINATION_01_SOL,
                   compute_commitment(Bytes32(1), Bytes32(1)),
                   MAX_ENCRYPTED_DATA)
    \/ \E n \in Notes :
          \E a \in NoteRequests(DENOMINATION_01_SOL, n) : Withdraw(a)
    \/ Withdraw(SelfPayment(DENOMINATION_01_SOL))
    \/ \E t \in Targets({DENOMINATION_01_SOL}) :
          ForceCloseAccountUpTo(MaxTreeAdminActs, config.authority, t)
    \/ ForceCloseThenTransfer(MaxTreeAdminActs, config.authority,
                              PoolAccount(DENOMINATION_01_SOL),
                              RentExemptMinimum(MixerPool_LEN))
    \/ Tick

SpecSolvency == Init /\ [][NextSolvency]_vars

\* -------------------------------------------------- the fee computation
\* The amounts a fee is computed of: the small ones, the pool tiers, those
\* around the largest whose product with FEE_BASIS_POINTS fits a word, and
\* the largest of all.
Amounts ==
    (0..MaxSmallAmount)
    \cup {DENOMINATION_01_SOL, DENOMINATION_1_SOL, DENOMINATION_10_SOL,
          DENOMINATION_100_SOL}
    \cup ((U64_MAX \div FEE_BASIS_POINTS - Window)
             ..(U64_MAX \div FEE_BASIS_POINTS + Window))
    \cup ((U64_MAX - Window)..U64_MAX)

InitFee ==
    /\ Init!1 /\ Init!2 /\ Init!3 /\ Init!4 /\ Init!5 /\ Init!6 /\ Init!7
    /\ Init!8 /\ Init!9 /\ Init!10 /\ Init!13
    /\ calc \in {[NoCalc EXCEPT !.amount = a] : a \in Amounts}
    /\ merkle = NoMerkle

\* The fee and the net amount of calc.amount are computed.
ComputeFee ==
    /\ ~calc.done
    /\ calc' = [amount |-> calc.amount, done |-> TRUE,
                err |-> FeeSplit(calc.amount).err,
                fee |-> FeeSplit(calc.amount).fee,
                net |-> FeeSplit(calc.amount).net]
    /\ UNCHANGED <<config, pools, registry, records, notes, wallets, now,
                   accepted, count, inflight, merkle, groth16>>

NextFee == ComputeFee

SpecFee == InitFee /\ [][NextFee]_vars

\* -------------------------------------------------- proof verification
\* The values a path entry takes: the literals and the zero value of each
\* level.
MerkleNodes == Vals \cup {ZeroValue(l) : l \in Levels}
MerklePaths == [Levels -> MerkleNodes]
MerkleIndices == [Levels -> BOOLEAN]

\* The roots claimed for (leaf, path, path_indices): the root it folds to,
\* the roots of the inputs that differ from it in the leaf, the path or
\* the indices, and the zero value.
ClaimedRoots(leaf, path, path_indices) ==
    {compute_merkle_root(l, path, path_indices) : l \in Vals}
    \cup {compute_merkle_root(leaf, q, path_indices) : q \in MerklePaths}
    \cup {compute_merkle_root(leaf, path, j) : j \in MerkleIndices}
    \cup {ZERO32}

InitMerkle ==
    /\ Init!1 /\ Init!2 /\ Init!3 /\ Init!4 /\ Init!5 /\ Init!6 /\ Init!7
    /\ Init!8 /\ Init!9 /\ Init!10 /\ Init!11 /\ Init!13
    /\ \E leaf \in Vals, path \in MerklePaths, path_indices \in MerkleIndices :
         \E root \in ClaimedRoots(leaf, path, path_indices) :
           merkle = [NoMerkle EXCEPT !.leaf = leaf, !.path = path,
                                     !.path_indices = path_indices,
                                     !.root = root]

\* The proof is verified and the root of its inputs computed.
VerifyProof ==
    /\ ~merkle.done
    /\ merkle' = [merkle EXCEPT
                    !.done = TRUE,
                    !.valid = verify_merkle_proof(merkle.leaf, merkle.path,
                                  merkle.path_indices, merkle.root),
                    !.computed = compute_merkle_root(merkle.leaf, merkle.path,
                                     merkle.path_indices)]
    /\ UNCHANGED <<config, pools, registry, records, notes, wallets, now,
                   accepted, count, inflight, calc, groth16>>

NextMerkle == VerifyProof

SpecMerkle == InitMerkle /\ [][NextMerkle]_vars

\* ------------------------------------------------------------ properties
\* The withdraws the client may submit against pool p with the stored fee
\* collector: any nullifier and secret, with any proof, paid to the client's
\* wallet, and the one paid to the pool itself.
Requests(p) ==
    UNION {{WithdrawArgs(p, n, s, pr, Wallet(Client), StoredFeeCollector) :
              pr \in Proofs(p, compute_commitment(s, n))} :
           n \in Vals, s \in Vals}
    \cup {SelfPayment(p)}

InRegistry(p, n) == registry[p].exists /\ is_used(registry[p], n)

RECURSIVE SumOver(_, _)
SumOver(f, S) ==
    IF S = {} THEN 0
    ELSE LET x == CHOOSE y \in S : TRUE IN f[x] + SumOver(f, S \ {x})

\* C1: within one pool a nullifier is accepted by at most one successful
\* withdraw: no nullifier occurs twice among the pool's accepted withdraws.
C1_NullifierAcceptedOnce ==
    \A p \in PoolIds : \A i, j \in 1..Len(accepted[p]) :
        accepted[p][i] = accepted[p][j] => i = j

\* C2: a withdraw succeeds only if the commitment computed from its secret
\* and nullifier is the commitment of a record stored by a deposit into
\* that pool.
C2_WithdrawNeedsDeposit ==
    \A p \in PoolIds : \A a \in Requests(p) :
        withdraw(State, a, now).err = "Ok" =>
            \E i \in LeafIndices :
                /\ records[p][i].exists
                /\ records[p][i].commitment =
                       compute_commitment(a.secret, a.nullifier)

\* What an observer of the ledger sees of a withdraw: its arguments and
\* accounts, and the ledger after it.
View(a) ==
    [nullifier |-> a.nullifier, secret |-> a.secret,
     merkle_root |-> a.merkle_root, merkle_proof |-> a.merkle_proof,
     path_indices |-> a.path_indices, recipient |-> a.recipient,
     fee_collector |-> a.fee_collector,
     ledger |-> Committed(withdraw(State, a, now))]

\* The owner of the note (s, n) deposited at leaf i redeems it.
Redeem(p, i, s, n) ==
    WithdrawArgs(p, n, s, HonestProof(records[p], i),
                 Wallet(Client), StoredFeeCollector)

Redeems(p, i, s, n) ==
    /\ records[p][i].exists
    /\ records[p][i].commitment = compute_commitment(s, n)
    /\ withdraw(State, Redeem(p, i, s, n), now).err = "Ok"

\* C3: a successful withdraw does not reveal which deposit it redeems: the
\* redemptions of any two leaves of a pool look the same to an observer.
C3_WithdrawHidesLeaf ==
    \A p \in PoolIds : \A i, j \in LeafIndices :
    \A s1, n1, s2, n2 \in Vals :
        Redeems(p, i, s1, n1) /\ Redeems(p, j, s2, n2) =>
            View(Redeem(p, i, s1, n1)) = View(Redeem(p, j, s2, n2))

\* C4: in every pool, total_withdrawals never exceeds total_deposits.
C4_WithdrawalsAtMostDeposits ==
    \A p \in PoolIds :
        pools[p].exists => pools[p].total_withdrawals <= pools[p].total_deposits

\* C5: no operation destroys a pool account or sweeps its lamports while
\* the pool's total_deposits differs from its total_withdrawals: the pool
\* survives the step and loses at most one denomination.
C5_OutstandingPoolKeepsFunds ==
    [][\A p \in PoolIds :
         (pools[p].exists
          /\ pools[p].total_deposits # pools[p].total_withdrawals) =>
             /\ pools'[p].exists
             /\ pools'[p].lamports >= pools[p].lamports - pools[p].denomination
      ]_vars

NoEffect(res) == res.err # "Ok" => Committed(res) = State

C7_MarkedOnlyByPaidWithdraw ==
    [][\A p \in PoolIds, n \in Vals :
         (~InRegistry(p, n)
          /\ registry'[p].exists /\ is_used(registry'[p], n)) =>
             /\ accepted'[p] = Append(accepted[p], n)
             /\ pools[p].exists /\ pools'[p].exists
             /\ pools'[p].total_withdrawals = pools[p].total_withdrawals + 1
             /\ pools'[p].lamports + SumOver(wallets', Users) =
                    pools[p].lamports + SumOver(wallets, Users)
             /\ config.exists
             /\ wallets'[config.fee_collector] >=
                    wallets[config.fee_collector]
                        + FeeSplit(pools[p].denomination).fee
             /\ pools[p].lamports - pools'[p].lamports \in
                    {pools[p].denomination,
                     FeeSplit(pools[p].denomination).fee}
      ]_vars

\* C7: a registry holds the nullifier of an accepted withdraw, and a
\* nullifier refused with one request (a bad proof) is accepted with another
\* after the refusal.
C7_Witness ==
    \E p \in PoolIds : \E n \in Vals :
        /\ InRegistry(p, n)
        /\ \E k \in 1..Len(accepted[p]) : accepted[p][k] = n
        /\ \E a, b \in Requests(p) :
               LET refused == withdraw(State, a, now) IN
               /\ a.nullifier = b.nullifier
               /\ refused.err = "InvalidMerkleProof"
               /\ ~is_used(Committed(refused).registry[p], a.nullifier)
               /\ withdraw(Committed(refused), b, now).err = "Ok"

Executed(i) == inflight[i].status # "pending"
Paid(i) == inflight[i].status = "Ok"

\* C8: of two withdraws carrying the same nullifier for the same pool and
\* submitted together, at most one pays out, in either order of execution;
\* the one executed after the payer is rejected with NullifierAlreadyUsed
\* (or InsufficientFunds); the nullifier is recorded once and
\* total_withdrawals rises by at most one.
C8_SameNullifierPaysOnce ==
    inflight # <<>> =>
        LET p == inflight[1].args.pool
            n == inflight[1].args.nullifier
        IN /\ ~(Paid(1) /\ Paid(2))
           /\ \A i, j \in 1..2 :
                (Paid(i) /\ Executed(j) /\ inflight[j].seq > inflight[i].seq) =>
                    inflight[j].status \in {"NullifierAlreadyUsed",
                                            "InsufficientFunds"}
           /\ registry[p].exists =>
                Cardinality({k \in 1..Len(registry[p].nullifiers) :
                               registry[p].nullifiers[k] = n}) <= 1
           /\ pools[p].total_withdrawals <= inflight[1].base + 1

\* C8: both were executed; one paid and the other was refused as a reuse.
C8_Witness ==
    /\ inflight # <<>>
    /\ \E i, j \in 1..2 :
         /\ Paid(i)
         /\ inflight[j].status = "NullifierAlreadyUsed"
         /\ inflight[j].seq > inflight[i].seq
         /\ inflight[i].args # inflight[j].args

\* C9: a registry never holds more than MAX_NULLIFIERS_PER_ACCOUNT
\* nullifiers; add_nullifier appends while it holds fewer and otherwise
\* fails with NullifierRegistryFull, leaving the registry as it was.
C9_RegistryCapacity ==
    \A p \in PoolIds : registry[p].exists =>
        /\ Len(registry[p].nullifiers) <= MAX_NULLIFIERS_PER_ACCOUNT
        /\ \A n \in Vals :
             LET r == add_nullifier(registry[p], n) IN
             IF Len(registry[p].nullifiers) < MAX_NULLIFIERS_PER_ACCOUNT
             THEN /\ r.err = "Ok"
                  /\ r.reg.nullifiers = Append(registry[p].nullifiers, n)
             ELSE /\ r.err = "NullifierRegistryFull"
                  /\ r.reg = registry[p]

\* C9: a registry is at capacity and refuses every further nullifier.
C9_Witness ==
    \E p \in PoolIds :
        /\ registry[p].exists
        /\ Len(registry[p].nullifiers) = MAX_NULLIFIERS_PER_ACCOUNT
        /\ \A n \in Vals :
             add_nullifier(registry[p], n).err = "NullifierRegistryFull"

\* C10: a registry never shrinks: a nullifier recorded in a pool's
\* registry is recorded in it after every step, and the registry's length
\* does not decrease.
C10_RegistryNeverShrinks ==
    [][\A p \in PoolIds : \A n \in Vals : InRegistry(p, n) =>
         /\ registry'[p].exists
         /\ is_used(registry'[p], n)
         /\ Len(registry'[p].nullifiers) >= Len(registry[p].nullifiers)
      ]_vars

\* C11: the registry of a pool holds one entry per withdrawal counted by
\* the pool: its length equals total_withdrawals in every reachable state.
C11_RegistryLengthIsWithdrawals ==
    \A p \in PoolIds :
        (pools[p].exists /\ registry[p].exists) =>
            Len(registry[p].nullifiers) = pools[p].total_withdrawals

\* C12: a registry holding MAX_NULLIFIERS_PER_ACCOUNT entries holds as many
\* after every step, and no withdraw against its pool succeeds.
C12_FullRegistryStaysFull ==
    [][\A p \in PoolIds :
         (registry[p].exists
          /\ Len(registry[p].nullifiers) = MAX_NULLIFIERS_PER_ACCOUNT) =>
             /\ registry'[p].exists
             /\ Len(registry'[p].nullifiers) = MAX_NULLIFIERS_PER_ACCOUNT
             /\ accepted'[p] = accepted[p]
      ]_vars

\* The deposits a caller may submit against pool p
DepositRequests(p) ==
    [depositor : Users,
     commitment : {ZERO32} \cup {compute_commitment(v, v) : v \in Notes},
     data_len : {MAX_ENCRYPTED_DATA, MAX_ENCRYPTED_DATA + 1}]

\* Requests(p), and the withdraws that pass another wallet than the stored
\* one as the fee collector
AnyRequests(p) ==
    Requests(p)
    \cup {WithdrawArgs(p, Bytes32(1), Bytes32(1),
                       ForgedProof(compute_commitment(Bytes32(1), Bytes32(1))),
                       Wallet(Client), f) : f \in Users}

\* The path of a folds the commitment of a into the root a claims.
Verifies(a) ==
    compute_merkle_root(compute_commitment(a.secret, a.nullifier),
                        a.merkle_proof, a.path_indices) = a.merkle_root

\* C13: no withdraw succeeds against a pool whose total_deposits is less
\* than 2.
C13_NoWithdrawBelowTwoDeposits ==
    \A p \in PoolIds :
        (pools[p].exists /\ pools[p].total_deposits < 2) =>
            \A a \in AnyRequests(p) : withdraw(State, a, now).err # "Ok"

\* C13: a pool with one deposit, past its delay, refuses a withdraw of
\* that deposit with a verifying proof for want of a second deposit.
C13_Witness ==
    \E p \in PoolIds :
        /\ pools[p].exists /\ pools[p].total_deposits = 1
        /\ TimeDelayMet(pools[p], now)
        /\ pools[p].lamports >= pools[p].denomination
        /\ \E a \in Requests(p) :
               /\ Verifies(a)
               /\ withdraw(State, a, now).err = "InsufficientAnonymitySet"

\* The case of C14: the accounts of the withdraw validate, the mixer is not
\* paused, the pool has exactly one deposit, secret and nullifier are
\* non-zero and the nullifier is unspent.
OneDepositCase(p, a) ==
    /\ WithdrawAccounts(State, p, a.fee_collector) = "Ok"
    /\ ~config.paused
    /\ pools[p].total_deposits = 1
    /\ a.secret # ZERO32 /\ a.nullifier # ZERO32
    /\ ~is_used(registry[p], a.nullifier)

\* C14 as stated: such a withdraw fails with InsufficientAnonymitySet,
\* whether its proof verifies or not.
C14_AnonymityErrorWhateverProof ==
    \A p \in PoolIds : \A a \in Requests(p) :
        OneDepositCase(p, a) =>
            withdraw(State, a, now).err = "InsufficientAnonymitySet"

\* C14: a withdraw against an unpaused pool with exactly one deposit, with
\* non-zero secret and non-zero unspent nullifier, fails: with
\* InsufficientAnonymitySet when its proof verifies against the claimed
\* root, and with InvalidMerkleProof when it does not.
C14_OneDepositWithdrawFails ==
    \A p \in PoolIds : \A a \in Requests(p) :
        OneDepositCase(p, a) =>
            withdraw(State, a, now).err =
                IF Verifies(a) THEN "InsufficientAnonymitySet"
                ELSE "InvalidMerkleProof"

\* C14: both cases occur in one state, for the same secret and nullifier.
C14_Witness ==
    \E p \in PoolIds : \E a, b \in Requests(p) :
        /\ OneDepositCase(p, a) /\ OneDepositCase(p, b)
        /\ a.nullifier = b.nullifier /\ a.secret = b.secret
        /\ Verifies(a) /\ ~Verifies(b)
        /\ withdraw(State, a, now).err = "InsufficientAnonymitySet"
        /\ withdraw(State, b, now).err = "InvalidMerkleProof"

\* The checks of withdraw that come before the time delay pass.
PassesUpToDelay(p, a) ==
    /\ WithdrawAccounts(State, p, a.fee_collector) = "Ok"
    /\ ~config.paused
    /\ a.secret # ZERO32 /\ a.nullifier # ZERO32
    /\ ~is_used(registry[p], a.nullifier)
    /\ Verifies(a)
    /\ pools[p].total_deposits >= 2

\* The state with every commitment record and note of pool p stamped t
Restamped(p, t) ==
    [State EXCEPT
       !.records[p] = [i \in DOMAIN @ |->
                         IF @[i].exists THEN [@[i] EXCEPT !.timestamp = t]
                         ELSE @[i]]]

\* C15: while now - creation_timestamp < min_delay no withdraw against the
\* pool succeeds, one that passes the earlier checks fails with
\* TimeDelayNotMet, and the outcome is the same whatever the timestamps of
\* the pool's deposits.
C15_PoolAgeGate ==
    \A p \in PoolIds : pools[p].exists =>
        \A a \in AnyRequests(p) :
            LET res == withdraw(State, a, now) IN
            /\ (now - pools[p].creation_timestamp < pools[p].min_delay) =>
                  /\ res.err # "Ok"
                  /\ PassesUpToDelay(p, a) => res.err = "TimeDelayNotMet"
            /\ \A t \in {0, now, now + MIN_TIME_DELAY} :
                  withdraw(Restamped(p, t), a, now).err = res.err

\* C15: a pool created after the clock passed min_delay, with two deposits,
\* refuses an otherwise acceptable withdraw with TimeDelayNotMet.
C15_Witness ==
    \E p \in PoolIds :
        /\ pools[p].exists
        /\ pools[p].creation_timestamp > 0
        /\ now >= pools[p].min_delay
        /\ \E a \in Requests(p) :
               /\ PassesUpToDelay(p, a)
               /\ withdraw(State, a, now).err = "TimeDelayNotMet"

\* C16 as stated: while the mixer is paused every deposit and withdraw
\* against an existing pool with a registry is rejected with MixerPaused.
C16_PausedAlwaysMixerPaused ==
    (config.exists /\ config.paused) =>
        \A p \in PoolIds : (pools[p].exists /\ registry[p].exists) =>
            /\ \A a \in AnyRequests(p) :
                   withdraw(State, a, now).err = "MixerPaused"
            /\ \A d \in DepositRequests(p) :
                   deposit(State, d.depositor, p, d.commitment, d.data_len,
                           now).err = "MixerPaused"

\* C16: while the mixer is paused every deposit and every withdraw is
\* rejected and changes no state, with MixerPaused whenever its accounts
\* pass validation, whatever its arguments; while it is not paused (after
\* unpause) none is rejected with MixerPaused.
C16_PausedRejects ==
    config.exists =>
        \A p \in PoolIds :
            /\ \A a \in AnyRequests(p) :
                   LET res == withdraw(State, a, now) IN
                   IF config.paused
                   THEN /\ res.err # "Ok"
                        /\ NoEffect(res)
                        /\ WithdrawAccounts(State, p, a.fee_collector) = "Ok"
                               => res.err = "MixerPaused"
                   ELSE res.err # "MixerPaused"
            /\ \A d \in DepositRequests(p) :
                   LET res == deposit(State, d.depositor, p, d.commitment,
                                      d.data_len, now)
                   IN
                   IF config.paused
                   THEN /\ res.err # "Ok"
                        /\ NoEffect(res)
                        /\ DepositAccounts(State, d.depositor, p).err = "Ok"
                               => res.err = "MixerPaused"
                   ELSE res.err # "MixerPaused"

\* C16: the mixer is paused and refuses with MixerPaused a withdraw and a
\* deposit that are both accepted once the authority has unpaused it.
C16_Witness ==
    /\ config.exists /\ config.paused
    /\ LET resumed == Committed(unpause(State, config.authority)) IN
       \E p \in PoolIds :
          /\ \E a \in Requests(p) :
                 /\ withdraw(State, a, now).err = "MixerPaused"
                 /\ withdraw(resumed, a, now).err = "Ok"
          /\ \E d \in DepositRequests(p) :
                 /\ deposit(State, d.depositor, p, d.commitment, d.data_len,
                            now).err = "MixerPaused"
                 /\ deposit(resumed, d.depositor, p, d.commitment,
                            d.data_len, now).err = "Ok"

\* C17: for every amount of a word, the fee computation either yields
\* fee = amount * FEE_BASIS_POINTS / BASIS_POINTS_DIVISOR (integer division)
\* and net = amount - fee, with fee + net = amount and fee <= amount, or,
\* when amount * FEE_BASIS_POINTS does not fit a word, fails with
\* ArithmeticOverflow; it never yields a wrapped value.
C17_FeeSplitExact ==
    calc.done =>
        IF calc.amount * FEE_BASIS_POINTS <= U64_MAX
        THEN /\ calc.err = "Ok"
             /\ calc.fee =
                    (calc.amount * FEE_BASIS_POINTS) \div BASIS_POINTS_DIVISOR
             /\ calc.net = calc.amount - calc.fee
             /\ calc.fee + calc.net = calc.amount
             /\ calc.fee <= calc.amount
             /\ calc.fee \in 0..U64_MAX /\ calc.net \in 0..U64_MAX
        ELSE calc.err = "ArithmeticOverflow"

\* C17: an amount the fee of which rounds down (the fee times the divisor
\* is less than the product) was split, and the parts add up to it.
C17_Witness ==
    /\ calc.done /\ calc.err = "Ok"
    /\ calc.fee > 0
    /\ calc.fee * BASIS_POINTS_DIVISOR < calc.amount * FEE_BASIS_POINTS
    /\ calc.fee + calc.net = calc.amount

\* C18: a step in which a withdraw against pool p succeeds lowers the
\* pool's balance by exactly the denomination, credits the net amount to the
\* recipient and the fee to the fee collector (both to the one wallet when
\* they are the same), and leaves the sum of all balances unchanged.
C18_WithdrawMovesDenomination ==
    [][\A p \in PoolIds :
         (pools[p].exists /\ Len(accepted'[p]) > Len(accepted[p])) =>
             LET split == FeeSplit(pools[p].denomination)
                 paid(r) == [wallets EXCEPT ![r] = @ + split.net]
             IN /\ pools'[p].lamports =
                       pools[p].lamports - pools[p].denomination
                /\ \E r \in Users :
                       wallets' = [paid(r) EXCEPT
                                     ![config.fee_collector] = @ + split.fee]
                /\ pools'[p].lamports + SumOver(wallets', Users) =
                       pools[p].lamports + SumOver(wallets, Users)
      ]_vars

\* C19: no leaf index of a pool is handed out twice: the deposits made
\* to a pool carry distinct leaf indices, so of the notes stored for one
\* leaf index of a pool (one per depositor) at most one exists.
C19_LeafIndexUsedOnce ==
    \A p \in PoolIds : \A i \in RecordKeys :
        Cardinality({u \in Users : notes[p][i][u].exists}) <= 1

\* C20: next_leaf_index never decreases, so it stays above the leaf index
\* of every commitment record written for the pool, and it never exceeds
\* 2^MERKLE_TREE_DEPTH; once it has reached that, a deposit that passes the
\* earlier checks is rejected with TreeFull and changes nothing.
C20_LeafCursorMonotone ==
    \A p \in PoolIds : pools[p].exists =>
        /\ pools[p].next_leaf_index <= 2^MERKLE_TREE_DEPTH
        /\ \A i \in RecordKeys :
               records[p][i].exists => i < pools[p].next_leaf_index
        /\ pools[p].next_leaf_index >= 2^MERKLE_TREE_DEPTH =>
               \A d \in DepositRequests(p) :
                   LET res == deposit(State, d.depositor, p, d.commitment,
                                      d.data_len, now)
                   IN (/\ DepositAccounts(State, d.depositor, p).err = "Ok"
                       /\ ~config.paused
                       /\ d.commitment # ZERO32
                       /\ d.data_len <= MAX_ENCRYPTED_DATA) =>
                          /\ res.err = "TreeFull"
                          /\ NoEffect(res)

\* C21: no withdraw with an all-zero nullifier or an all-zero secret
\* succeeds and no deposit with an all-zero commitment succeeds; no registry
\* contains the all-zero nullifier and no commitment record holds the
\* all-zero commitment.
C21_ZeroValuesRejected ==
    \A p \in PoolIds :
        /\ \A a \in AnyRequests(p) :
               (a.nullifier = Bytes32(0) \/ a.secret = Bytes32(0)) =>
                   withdraw(State, a, now).err # "Ok"
        /\ \A d \in DepositRequests(p) :
               d.commitment = Bytes32(0) =>
                   deposit(State, d.depositor, p, d.commitment, d.data_len,
                           now).err # "Ok"
        /\ registry[p].exists => ~is_used(registry[p], Bytes32(0))
        /\ \A i \in RecordKeys :
               records[p][i].exists => records[p][i].commitment # Bytes32(0)

\* C21: a pool with deposits and a spent nullifier, open for withdrawal,
\* refuses a withdraw for its zero nullifier, another for its zero secret
\* (its proof verifies), and a deposit for its zero commitment.
C21_Witness ==
    \E p \in PoolIds :
        /\ registry[p].exists /\ registry[p].nullifiers # <<>>
        /\ \E a, b \in Requests(p) :
               /\ a.nullifier = Bytes32(0) /\ a.secret # Bytes32(0)
               /\ withdraw(State, a, now).err = "InvalidNullifier"
               /\ b.secret = Bytes32(0) /\ b.nullifier # Bytes32(0)
               /\ Verifies(b)
               /\ ~is_used(registry[p], b.nullifier)
               /\ withdraw(State, b, now).err = "InvalidSecret"
        /\ \E d \in DepositRequests(p) :
               /\ d.commitment = Bytes32(0)
               /\ deposit(State, d.depositor, p, d.commitment, d.data_len,
                          now).err = "InvalidCommitment"

\* C22: no two commitment records of a pool hold the same commitment.
C22_CommitmentsDistinct ==
    \A p \in PoolIds : \A i, j \in RecordKeys :
        (records[p][i].exists /\ records[p][j].exists
         /\ records[p][i].commitment = records[p][j].commitment) => i = j

RECURSIVE FoldTo(_, _, _, _)
\* The running hash after the first k levels of the leaf-to-root fold:
\* hash(path[i], current) when indices[i] is true, else hash(current, path[i])
FoldTo(leaf, path, indices, k) ==
    IF k = 0 THEN leaf
    ELSE LET current == FoldTo(leaf, path, indices, k - 1) IN
         IF indices[k - 1] THEN hash_pair(path[k - 1], current)
         ELSE hash_pair(current, path[k - 1])

\* C23: verify_merkle_proof returns true exactly when the fold of leaf
\* over levels 0..DEPTH-1 equals root; it agrees with
\* compute_merkle_root(leaf, path, indices) = root, and the inputs verify
\* against the root compute_merkle_root gives for them.
C23_VerifyIsFold ==
    merkle.done =>
        /\ merkle.valid =
              (FoldTo(merkle.leaf, merkle.path, merkle.path_indices,
                      MERKLE_TREE_DEPTH) = merkle.root)
        /\ merkle.valid = (merkle.computed = merkle.root)
        /\ verify_merkle_proof(merkle.leaf, merkle.path, merkle.path_indices,
                               merkle.computed)

\* C23: a proof with a right-hand step was verified against the root it
\* folds to, and the same inputs were refused against another root.
C23_Witness ==
    /\ merkle.done /\ merkle.valid
    /\ \E l \in Levels : merkle.path_indices[l]
    /\ merkle.root = merkle.computed
    /\ ~verify_merkle_proof(merkle.leaf, merkle.path, merkle.path_indices,
                            ZERO32)

\* The verified inputs with the index bit of level l flipped
FlippedAt(l) == [merkle.path_indices EXCEPT ![l] = ~@]

\* Changing the leaf, one path entry or the claimed root of the verified
\* inputs makes verify_merkle_proof return false.
OtherInputsRefused ==
    /\ \A leaf \in Vals \ {merkle.leaf} :
           ~verify_merkle_proof(leaf, merkle.path, merkle.path_indices,
                                merkle.root)
    /\ \A l \in Levels : \A v \in MerkleNodes \ {merkle.path[l]} :
           ~verify_merkle_proof(merkle.leaf, [merkle.path EXCEPT ![l] = v],
                                merkle.path_indices, merkle.root)
    /\ \A root \in ClaimedRoots(merkle.leaf, merkle.path,
                                 merkle.path_indices) \ {merkle.root} :
           ~verify_merkle_proof(merkle.leaf, merkle.path,
                                merkle.path_indices, root)

\* C24 as stated: for inputs that fold to the root, changing the leaf, any
\* one path entry, any one index bit or the root makes verify_merkle_proof
\* return false.
C24_AnyChangeRefused ==
    (merkle.done /\ merkle.root = merkle.computed) =>
        /\ OtherInputsRefused
        /\ \A l \in Levels :
               ~verify_merkle_proof(merkle.leaf, merkle.path, FlippedAt(l),
                                    merkle.root)

\* C24: for inputs that fold to the root, changing the leaf, any one path
\* entry or the root makes verify_merkle_proof return false, and so does
\* flipping the index bit of a level whose path entry differs from the
\* running hash at that level; where they are equal the flipped proof
\* still verifies.
C24_ChangeRefused ==
    (merkle.done /\ merkle.root = merkle.computed) =>
        /\ OtherInputsRefused
        /\ \A l \in Levels :
               verify_merkle_proof(merkle.leaf, merkle.path, FlippedAt(l),
                                   merkle.root)
               = (merkle.path[l] = FoldTo(merkle.leaf, merkle.path,
                                          merkle.path_indices, l))

\* C24: verified inputs with a right-hand step at the top level and every
\* path entry different from the running hash; every single change of
\* them is refused.
C24_Witness ==
    /\ merkle.done /\ merkle.valid
    /\ merkle.path_indices[MERKLE_TREE_DEPTH - 1]
    /\ \A l \in Levels :
          /\ merkle.path[l] # FoldTo(merkle.leaf, merkle.path,
                                     merkle.path_indices, l)
          /\ ~verify_merkle_proof(merkle.leaf, merkle.path, FlippedAt(l),
                                  merkle.root)
    /\ OtherInputsRefused

RECURSIVE ZeroFilledRoot(_, _)
\* The root over a subtree `node` of height k whose right-hand sibling
\* subtrees at levels k..DEPTH-1 are empty
ZeroFilledRoot(node, k) ==
    IF k >= MERKLE_TREE_DEPTH THEN node
    ELSE ZeroFilledRoot(hash_pair(node, compute_zero_values[k]), k + 1)

\* The verified path is filled with the zero values from level k on.
ZeroFilledFrom(k) ==
    \A l \in Levels : l >= k =>
        /\ merkle.path[l] = compute_zero_values[l]
        /\ ~merkle.path_indices[l]

\* C25: compute_zero_values has DEPTH+1 entries, entry 0 is 32 zero bytes
\* and entry i is hash_pair(entry i-1, entry i-1); a leaf whose sibling
\* subtrees at levels k..DEPTH-1 are filled with these entries verifies
\* against the root built from its subtree and the same entries.
C25_ZeroValues ==
    /\ DOMAIN compute_zero_values = 0..MERKLE_TREE_DEPTH
    /\ compute_zero_values[0] = Bytes32(0)
    /\ \A i \in 1..MERKLE_TREE_DEPTH :
          compute_zero_values[i] =
              hash_pair(compute_zero_values[i - 1], compute_zero_values[i - 1])
    /\ merkle.done =>
          \A k \in 0..MERKLE_TREE_DEPTH :
              ZeroFilledFrom(k) =>
                  verify_merkle_proof(
                      merkle.leaf, merkle.path, merkle.path_indices,
                      ZeroFilledRoot(FoldTo(merkle.leaf, merkle.path,
                                            merkle.path_indices, k), k))

\* C25: a non-zero leaf on the right of a populated sibling, with the
\* levels above filled with zero values, was verified against that root.
C25_Witness ==
    /\ merkle.done /\ merkle.valid
    /\ merkle.leaf # ZERO32 /\ merkle.path[0] \in Vals \ {ZERO32}
    /\ merkle.path_indices[0]
    /\ ZeroFilledFrom(1)
    /\ merkle.root = ZeroFilledRoot(hash_pair(merkle.path[0], merkle.leaf), 1)

\* C27: registries are per pool: a successful withdraw in pool A leaves the
\* registry of every other pool B as it was, and a withdraw in B is
\* rejected with NullifierAlreadyUsed only when B's own registry holds its
\* nullifier, whatever A's registry holds.
C27_RegistriesPerPool ==
    \A A \in PoolIds : \A a \in Requests(A) :
        LET res == withdraw(State, a, now) IN
        /\ res.err = "Ok" =>
              \A B \in PoolIds \ {A} :
                  Committed(res).registry[B] = registry[B]
        /\ res.err = "NullifierAlreadyUsed" =>
              is_used(registry[A], a.nullifier)

\* C27: a nullifier spent in one pool and not in the other is accepted by
\* a withdraw in the other.
C27_Witness ==
    \E A, B \in PoolIds : \E n \in Vals :
        /\ A # B
        /\ InRegistry(A, n)
        /\ registry[B].exists /\ ~is_used(registry[B], n)
        /\ \E k \in 1..Len(accepted[A]) : accepted[A][k] = n
        /\ \E b \in Requests(B) :
               b.nullifier = n /\ withdraw(State, b, now).err = "Ok"

\* Minimum delays asked of create_pool: negative, zero, either side of
\* MIN_TIME_DELAY and above it.
Delays == {-1, 0, MIN_TIME_DELAY - 1, MIN_TIME_DELAY, MIN_TIME_DELAY + 1}
Tiers ==
    {DENOMINATION_01_SOL, DENOMINATION_1_SOL, DENOMINATION_10_SOL,
     DENOMINATION_100_SOL}
\* The accounts of a create_pool call validate: the config exists and names
\* the signer, the pool PDA is free and the payer can pay its rent.
CreatePoolAccounts(signer, payer, d) ==
    /\ config.exists /\ HasOneAuthority(config, signer)
    /\ InitError(pools[d], State, payer, MixerPool_LEN) = "Ok"

\* C28: create_pool succeeds only for a tier denomination and a min_delay of
\* at least MIN_TIME_DELAY; with valid accounts any other denomination is
\* InvalidDenomination and a tier with a smaller delay is InvalidTimeDelay;
\* the created pool has its three counters at 0; and every existing pool
\* has a tier denomination and min_delay >= MIN_TIME_DELAY.
C28_CreatePoolValidates ==
    /\ \A signer, payer \in Users, d \in PoolKeys, m \in Delays :
          LET res == create_pool(State, signer, payer, d, m, now)
              created == Committed(res).pools[d]
          IN
          /\ res.err = "Ok" =>
                /\ d \in Tiers /\ m >= MIN_TIME_DELAY
                /\ created.exists
                /\ created.denomination = d /\ created.min_delay = m
                /\ created.total_deposits = 0
                /\ created.total_withdrawals = 0
                /\ created.next_leaf_index = 0
          /\ CreatePoolAccounts(signer, payer, d) =>
                res.err = IF d \notin Tiers THEN "InvalidDenomination"
                          ELSE IF m < MIN_TIME_DELAY THEN "InvalidTimeDelay"
                          ELSE "Ok"
    /\ \A d \in PoolKeys : pools[d].exists =>
          /\ pools[d].denomination \in Tiers
          /\ pools[d].min_delay >= MIN_TIME_DELAY

\* C28: one pool exists and has taken a deposit, and create_pool by the
\* authority for the other tiers is accepted with a delay of MIN_TIME_DELAY
\* and refused for each reason otherwise.
C28_Witness ==
    /\ config.exists
    /\ pools[DENOMINATION_01_SOL].exists
    /\ pools[DENOMINATION_01_SOL].total_deposits > 0
    /\ \A d \in Tiers \ {DENOMINATION_01_SOL} :
          /\ create_pool(State, config.authority, Client, d,
                         MIN_TIME_DELAY, now).err = "Ok"
          /\ create_pool(State, config.authority, Client, d,
                         MIN_TIME_DELAY - 1, now).err = "InvalidTimeDelay"
    /\ create_pool(State, config.authority, Client, INVALID_DENOMINATION,
                   MIN_TIME_DELAY, now).err = "InvalidDenomination"

\* The results of the seven administrative instructions signed by `signer`
\* in state st, one per choice of their other arguments.
AdminResults(st, signer) ==
    {pause(st, signer), unpause(st, signer)}
    \cup {update_authority(st, signer, u) : u \in Users}
    \cup {update_fee_collector(st, signer, u) : u \in Users}
    \cup {create_pool(st, signer, Client, d, MIN_TIME_DELAY, now) :
             d \in PoolKeys}
    \cup {close_pool(st, signer, p) : p \in PoolIds}
    \cup {force_close_account(st, signer, t) : t \in Targets(PoolIds)}

\* The errors of the same instructions, by instruction and arguments; of
\* force_close_account, those on the program's accounts (on a wallet the
\* outcome depends on whether the wallet is the signer's own).
AdminErrors(st, signer) ==
    [pause |-> pause(st, signer).err,
     unpause |-> unpause(st, signer).err,
     update_authority |->
        [u \in Users |-> update_authority(st, signer, u).err],
     update_fee_collector |->
        [u \in Users |-> update_fee_collector(st, signer, u).err],
     create_pool |->
        [d \in PoolKeys |->
            create_pool(st, signer, Client, d, MIN_TIME_DELAY, now).err],
     close_pool |-> [p \in PoolIds |-> close_pool(st, signer, p).err],
     force_close_account |->
        [t \in {x \in Targets(PoolIds) : x.kind # "wallet"} |->
            force_close_account(st, signer, t).err]]

\* C29: the seven administrative instructions take effect only when signed
\* by the authority stored in config; and after update_authority(new) with
\* new different from the previous authority, none of them takes effect
\* for the previous authority while each does for the new one whatever it
\* did for the previous authority before the rotation.
C29_AuthorityGated ==
    /\ \A signer \in Users : \A res \in AdminResults(State, signer) :
          /\ res.err = "Ok" =>
                config.exists /\ signer = config.authority
          /\ NoEffect(res)
    /\ config.exists =>
          \A new \in Users \ {config.authority} :
            LET old == config.authority
                rotation == update_authority(State, old, new)
                after == Committed(rotation)
            IN
            /\ rotation.err = "Ok"
            /\ after.config.authority = new
            /\ \A res \in AdminResults(after, old) : res.err # "Ok"
            /\ AdminErrors(after, new) = AdminErrors(State, old)
            /\ pause(after, new).err = "Ok"
            /\ unpause(after, new).err = "Ok"
            /\ \A u \in Users :
                  /\ update_authority(after, new, u).err = "Ok"
                  /\ update_fee_collector(after, new, u).err = "Ok"

\* C29: the authority was rotated away from the wallet that initialized
\* the program (the fee collector still is that wallet); a pool exists
\* that the new authority can close and the previous one cannot.
C29_Witness ==
    /\ config.exists
    /\ config.authority # config.fee_collector
    /\ config.fee_collector = 1
    /\ pause(State, 1).err = "ConstraintHasOne"
    /\ pause(State, config.authority).err = "Ok"
    /\ \E p \in PoolIds :
          /\ pools[p].exists
          /\ close_pool(State, 1, p).err = "ConstraintHasOne"
          /\ close_pool(State, config.authority, p).err = "Ok"

\* C30: Closed is terminal: once close_pool has closed a pool, no deposit
\* or withdraw against it succeeds and its counters do not change.
C30_ClosedIsTerminal ==
    [][\A p \in PoolIds : p \in count.closed =>
         /\ accepted'[p] = accepted[p]
         /\ (pools[p].exists /\ pools'[p].exists) =>
               /\ pools'[p].total_deposits = pools[p].total_deposits
               /\ pools'[p].total_withdrawals = pools[p].total_withdrawals
               /\ pools'[p].next_leaf_index = pools[p].next_leaf_index]_vars

\* The preconditions of C31 hold of the note (secret, nullifier) recorded at
\* leaf i of pool p.
NoteWithdrawable(p, i, secret, nullifier) ==
    /\ config.exists /\ ~config.paused
    /\ pools[p].exists /\ registry[p].exists
    /\ Len(registry[p].nullifiers) < MAX_NULLIFIERS_PER_ACCOUNT
    /\ \A k \in 1..Len(registry[p].nullifiers) :
          registry[p].nullifiers[k] # nullifier
    /\ records[p][i].exists
    /\ records[p][i].commitment = hash_pair(secret, nullifier)
    /\ \E j \in LeafIndices \ {i} : records[p][j].exists
    /\ pools[p].total_deposits >= 2
    /\ now - pools[p].creation_timestamp >= pools[p].min_delay
    /\ pools[p].lamports >= pools[p].denomination

\* The withdraw of the note succeeds and the identical withdraw, submitted
\* to the state it leaves, fails with NullifierAlreadyUsed.
OnceThenReplayRefused(p, i, secret, nullifier) ==
    LET a == NoteWithdraw(p, i, secret, nullifier)
        res == withdraw(State, a, now)
    IN /\ res.err = "Ok"
       /\ withdraw(Committed(res), a, now).err = "NullifierAlreadyUsed"

WithdrawFailures(p, a) ==
    <<[error |-> "MixerPaused", fails |-> config.paused],
      [error |-> "InvalidNullifier", fails |-> a.nullifier = Bytes32(0)],
      [error |-> "InvalidSecret", fails |-> a.secret = Bytes32(0)],
      [error |-> "NullifierAlreadyUsed",
       fails |-> \E k \in 1..Len(registry[p].nullifiers) :
                    registry[p].nullifiers[k] = a.nullifier],
      [error |-> "InvalidMerkleProof", fails |-> ~Verifies(a)],
      [error |-> "InsufficientAnonymitySet",
       fails |-> pools[p].total_deposits < 2],
      [error |-> "TimeDelayNotMet",
       fails |-> now - pools[p].creation_timestamp < pools[p].min_delay],
      [error |-> "ArithmeticOverflow",
       fails |-> pools[p].denomination * FEE_BASIS_POINTS > U64_MAX],
      [error |-> "InsufficientFunds",
       fails |-> pools[p].lamports < pools[p].denomination],
      [error |-> "NullifierRegistryFull",
       fails |-> Len(registry[p].nullifiers)
                    >= MAX_NULLIFIERS_PER_ACCOUNT]>>

\* The error of the first entry that fails, Ok when none does
FirstFailure(checks) ==
    IF \E k \in 1..Len(checks) : checks[k].fails
    THEN checks[CHOOSE k \in 1..Len(checks) :
                  /\ checks[k].fails
                  /\ \A j \in 1..(k - 1) : ~checks[j].fails].error
    ELSE "Ok"

FailureCount(checks) ==
    Cardinality({k \in 1..Len(checks) : checks[k].fails})

\* C32: a withdraw whose accounts validate returns the error of the first
\* failing condition in the order MixerPaused, InvalidNullifier,
\* InvalidSecret, NullifierAlreadyUsed, InvalidMerkleProof,
\* InsufficientAnonymitySet, TimeDelayNotMet, ArithmeticOverflow,
\* InsufficientFunds, NullifierRegistryFull, and Ok when none fails.
C32_WithdrawFirstFailure ==
    \A p \in PoolIds : \A a \in AnyRequests(p) :
        WithdrawAccounts(State, p, a.fee_collector) = "Ok" =>
            withdraw(State, a, now).err = FirstFailure(WithdrawFailures(p, a))

\* C32: a spent nullifier is presented with a path that does not verify,
\* to a full registry, and the withdraw reports NullifierAlreadyUsed.
C32_Witness ==
    \E p \in PoolIds : \E a \in Requests(p) :
        /\ WithdrawAccounts(State, p, a.fee_collector) = "Ok"
        /\ InRegistry(p, a.nullifier)
        /\ ~Verifies(a)
        /\ Len(registry[p].nullifiers) >= MAX_NULLIFIERS_PER_ACCOUNT
        /\ FailureCount(WithdrawFailures(p, a)) >= 3
        /\ withdraw(State, a, now).err = "NullifierAlreadyUsed"

\* The conditions deposit rejects a request for, in the order C33 lists
\* them, each stated on its own, with the error it is reported as.
DepositFailures(p, d) ==
    <<[error |-> "MixerPaused", fails |-> config.paused],
      [error |-> "InvalidCommitment", fails |-> d.commitment = Bytes32(0)],
      [error |-> "EncryptedDataTooLarge", fails |-> d.data_len > 200],
      [error |-> "TreeFull",
       fails |-> pools[p].next_leaf_index >= 2^MERKLE_TREE_DEPTH]>>

C34_CommitmentIsPairHash ==
    /\ \A s \in Vals, n \in Vals : compute_commitment(s, n) = hash_pair(s, n)
    /\ \A p \in PoolIds, i \in LeafIndices, s \in Vals, n \in Vals :
         (/\ records[p][i].exists
          /\ records[p][i].commitment = hash_pair(s, n)) =>
            LET a == NoteWithdraw(p, i, s, n) IN
            /\ verify_merkle_proof(compute_commitment(a.secret, a.nullifier),
                 a.merkle_proof, a.path_indices, a.merkle_root)
            /\ withdraw(State, a, now).err # "InvalidMerkleProof"

\* C34: a leaf is hash_pair(s, n) with s and n different and non-zero, and
\* the withdraw with (s, n) has been accepted.
C34_Witness ==
    \E p \in PoolIds, i \in LeafIndices :
        \E s \in Vals \ {ZERO32}, n \in Vals \ {ZERO32} :
            /\ s # n
            /\ records[p][i].exists
            /\ records[p][i].commitment = hash_pair(s, n)
            /\ \E k \in 1..Len(accepted[p]) : accepted[p][k] = n

\* C35: verify_groth16_proof returns Ok(true) whatever the proof, the
\* public inputs and the key; and a verification changes the outcome of no
\* deposit and of no withdraw.
C35_Groth16AlwaysTrueAndUnused ==
    /\ [](groth16.done => groth16.err = "Ok" /\ groth16.value = TRUE)
    /\ [][groth16' # groth16 =>
            \A p \in PoolIds :
              /\ \A a \in Requests(p) :
                    withdraw(State, a, now)' = withdraw(State, a, now)
              /\ \A d \in DepositRequests(p) :
                    deposit(State, d.depositor, p, d.commitment, d.data_len,
                            now)'
                    = deposit(State, d.depositor, p, d.commitment,
                              d.data_len, now)]_vars

\* C35: the only proof verified was for another nullifier than the one a
\* withdraw has been accepted with, and a withdraw with the root and the
\* nullifier the verifier accepted is refused.
C35_Witness ==
    /\ groth16.done /\ groth16.value
    /\ \E p \in PoolIds :
          /\ accepted[p] # <<>>
          /\ \A k \in 1..Len(accepted[p]) :
                accepted[p][k] # groth16.nullifier_hash
          /\ \E a \in Requests(p) :
                /\ a.nullifier = groth16.nullifier_hash
                /\ a.merkle_root = groth16.root
                /\ withdraw(State, a, now).err = "InvalidMerkleProof"

\* C36: no withdraw succeeds for a pool without a registry account; a
\* registry is created empty; and initialize_nullifier_registry succeeds
\* neither while the pool's registry exists nor after a withdraw of the
\* pool was accepted (it cannot be run again to reset spent nullifiers).
C36_RegistryInitialisedOnce ==
    \A p \in PoolIds :
        /\ ~registry[p].exists =>
              \A a \in AnyRequests(p) : withdraw(State, a, now).err # "Ok"
        /\ \A payer \in Users :
              LET res == initialize_nullifier_registry(State, payer, p) IN
              /\ res.err = "Ok" =>
                    /\ Committed(res).registry[p].exists
                    /\ Committed(res).registry[p].nullifiers = <<>>
              /\ registry[p].exists => res.err # "Ok"
              /\ accepted[p] # <<>> => res.err # "Ok"

\* C37: in every pool next_leaf_index equals total_deposits: a created
\* pool has both at 0, a successful deposit adds 1 to each, and a
\* successful withdraw changes neither.
C37_LeafIndexIsDeposits ==
    \A p \in PoolIds :
        /\ pools[p].exists =>
              pools[p].next_leaf_index = pools[p].total_deposits
        /\ \A d \in DepositRequests(p) :
              LET res == deposit(State, d.depositor, p, d.commitment,
                                 d.data_len, now)
                  after == Committed(res).pools[p]
              IN res.err = "Ok" =>
                   /\ after.next_leaf_index = pools[p].next_leaf_index + 1
                   /\ after.total_deposits = pools[p].total_deposits + 1
        /\ \A a \in Requests(p) :
              LET res == withdraw(State, a, now)
                  after == Committed(res).pools[p]
              IN res.err = "Ok" =>
                   /\ after.next_leaf_index = pools[p].next_leaf_index
                   /\ after.total_deposits = pools[p].total_deposits

\* C37: a pool has taken two deposits and a withdraw.
C37_Witness ==
    \E p \in PoolIds :
        /\ pools[p].exists
        /\ pools[p].total_deposits >= 2
        /\ pools[p].total_withdrawals >= 1

\* C38 (solvency): every existing pool holds at least (total_deposits -
\* total_withdrawals) * denomination lamports, and so does the pool every
\* accepted deposit, withdraw or force_close_account leaves, if it leaves
\* one.
C38_PoolSolvent ==
    LET Solvent(pool) ==
          pool.exists =>
            pool.lamports >= (pool.total_deposits - pool.total_withdrawals)
                              * pool.denomination
    IN
    \A p \in PoolIds :
        /\ Solvent(pools[p])
        /\ \A d \in DepositRequests(p) :
              Solvent(Committed(deposit(State, d.depositor, p, d.commitment,
                                        d.data_len, now)).pools[p])
        /\ \A a \in Requests(p) :
              Solvent(Committed(withdraw(State, a, now)).pools[p])
        /\ \A signer \in Users, t \in Targets(PoolIds) :
              Solvent(Committed(force_close_account(State, signer, t)).pools[p])

\* C39: a pool's total_withdrawals never exceeds
\* MAX_NULLIFIERS_PER_ACCOUNT; so a pool that has accepted more deposits
\* than that never has total_deposits = total_withdrawals, and close_pool
\* never succeeds for it.
C39_WithdrawalsCappedByRegistry ==
    \A p \in PoolIds : pools[p].exists =>
        /\ pools[p].total_withdrawals <= MAX_NULLIFIERS_PER_ACCOUNT
        /\ pools[p].total_deposits > MAX_NULLIFIERS_PER_ACCOUNT =>
              /\ pools[p].total_deposits # pools[p].total_withdrawals
              /\ \A signer \in Users :
                    close_pool(State, signer, p).err # "Ok"

\* The fields of an account: what it holds apart from its balance
FieldsOf(account) ==
    [f \in DOMAIN account \ {"lamports"} |-> account[f]]

\* Withdraw requests of pool p, and the same paid to the config account or
\* to the pool's first commitment record where these exist (the recipient
\* can be any address).
FrameRequests(p) ==
    AnyRequests(p)
    \cup {[a EXCEPT !.recipient = t] :
            a \in AnyRequests(p),
            t \in {x \in {Target("config", 0, 0, 0), Target("record", p, 0, 0)} :
                     AccountAt(State, x).exists}}

\* C40 (frame): an accepted withdraw leaves total_deposits,
\* next_leaf_index, denomination, min_delay, creation_timestamp, the fields
\* of every commitment record and of config as they were, and pays its
\* fee to the fee collector stored in config; an accepted deposit leaves
\* total_withdrawals, the registries and config as they were; pause,
\* unpause, update_authority and update_fee_collector change their one
\* config field and nothing else.
C40_Frame ==
    /\ \A p \in PoolIds : \A a \in FrameRequests(p) :
         LET res == withdraw(State, a, now)
             after == Committed(res)
             fee == (pools[p].denomination * FEE_BASIS_POINTS)
                      \div BASIS_POINTS_DIVISOR
             net == pools[p].denomination - fee
             collector == config.fee_collector
         IN res.err = "Ok" =>
              /\ after.pools[p].total_deposits = pools[p].total_deposits
              /\ after.pools[p].next_leaf_index = pools[p].next_leaf_index
              /\ after.pools[p].denomination = pools[p].denomination
              /\ after.pools[p].min_delay = pools[p].min_delay
              /\ after.pools[p].creation_timestamp
                   = pools[p].creation_timestamp
              /\ \A q \in PoolKeys, i \in RecordKeys :
                   FieldsOf(after.records[q][i]) = FieldsOf(records[q][i])
              /\ FieldsOf(after.config) = FieldsOf(config)
              /\ a.fee_collector = collector
              /\ after.wallets[collector] =
                   wallets[collector] + fee
                   + (IF a.recipient = Wallet(collector) THEN net ELSE 0)
              /\ \A u \in Users \ {collector} :
                   a.recipient # Wallet(u) =>
                     after.wallets[u] = wallets[u]
    /\ \A p \in PoolIds : \A d \in DepositRequests(p) :
         LET res == deposit(State, d.depositor, p, d.commitment, d.data_len,
                            now)
             after == Committed(res)
         IN res.err = "Ok" =>
              /\ after.pools[p].total_withdrawals
                   = pools[p].total_withdrawals
              /\ after.registry = registry
              /\ after.config = config
    /\ \A signer \in Users, u \in Users :
         LET Only(res, field, value) ==
               res.err = "Ok" =>
                 /\ Committed(res).config[field] = value
                 /\ \A f \in DOMAIN config \ {field} :
                      Committed(res).config[f] = config[f]
                 /\ Committed(res).pools = pools
                 /\ Committed(res).registry = registry
                 /\ Committed(res).records = records
                 /\ Committed(res).notes = notes
                 /\ Committed(res).wallets = wallets
         IN
         /\ Only(pause(State, signer), "paused", TRUE)
         /\ Only(unpause(State, signer), "paused", FALSE)
         /\ Only(update_authority(State, signer, u), "authority", u)
         /\ Only(update_fee_collector(State, signer, u), "fee_collector", u)

\* C40: the fee collector was changed after the program was initialized; a
\* withdraw naming the stored collector is accepted and the same withdraw
\* naming the previous one is refused.
C40_Witness ==
    /\ config.exists
    /\ config.fee_collector # config.authority
    /\ config.authority = 1
    /\ \E p \in PoolIds : \E a \in Requests(p) :
          /\ withdraw(State, a, now).err = "Ok"
          /\ withdraw(State, [a EXCEPT !.fee_collector = 1], now).err
               = "ConstraintAddress"

====
